---- MODULE Spec2Model ----
(***************************************************************************)
(* Meta Ads analyzer backend: paginated insight fetch, row normalization   *)
(* with purchase resolution, the analysis client and the request handlers. *)
(*                                                                         *)
(* Several specifications share this module; each one drives one part of   *)
(* the program and leaves the variables of the other parts idle:           *)
(*   SpecFetch  meta_client.fetch_insights / fetch_insights_by_level       *)
(*   SpecPick   meta_client._pick_purchase_count / _pick_purchase_value    *)
(*   SpecNorm   the normalizers' loop over a raw row list                  *)
(*   SpecLLM    ai_client.analyze_campaigns_with_gpt                       *)
(*   SpecReq    main.analyze (GET) and main.analyze_post (POST)            *)
(***************************************************************************)
EXTENDS Integers, Sequences, FiniteSets, TLC

VARIABLES
    \* ---- paginated fetch (meta_client.py 36-179)
    f_pc,        \* "idle" | "call" | "loop" | "returned" | "raised"
    f_fn,        \* "fetch_insights" | "fetch_insights_by_level"
    level,       \* the level argument
    since,       \* the since argument: "None", "" or a date
    until,       \* the until argument
    url,         \* the loop's current url
    params,      \* the loop's current params mapping
    all_data,    \* rows accumulated so far
    requests,    \* log of requests.get calls: [url, params]
    served,      \* log of the responses the server gave, in order
    f_result,    \* the returned list, or NoResult
    f_error,     \* the raised exception [type, message], or NoError
    \* ---- purchase resolution on one list (meta_client.py 205-230)
    p_pc,        \* "idle" | "call" | "done" | "raised"
    p_actions,   \* the list argument
    p_count,     \* result of _pick_purchase_count
    p_value,     \* result of _pick_purchase_value
    \* ---- a normalizer (meta_client.py 233-353)
    n_pc,        \* "idle" | "call" | "loop" | "returned" | "raised"
    n_level,     \* which normalizer: campaign, adset or ad
    raw,         \* the raw argument
    raw0,        \* the raw argument as it was at the call
    n_i,         \* position of `for row in raw`
    normalized,  \* the list under construction
    n_result,    \* the returned list, or NoResult
    \* ---- analyze_campaigns_with_gpt (ai_client.py 189-243)
    l_pc,        \* "idle" | "call" | "client" | "prompt" | "messages" | "chat" | "returned" | "raised"
    api_key,     \* the api_key argument: "None", "" or a key
    l_args,      \* campaigns, adsets, ads, user_query, period_label, intents
    history,     \* the history argument: None or a list of turns
    client,      \* the provider client, once constructed
    prompt,      \* the prompt, once built
    messages,    \* the message list, once built
    chat_calls,  \* log of chat-completion requests sent to the provider
    l_result,    \* the returned text, or NoResult
    l_error,     \* the raised exception, or NoError
    \* ---- an analysis request (main.py 174-352)
    r_pc,        \* "idle" | "require_env" | "fetch_campaign" | "fetch_adset" | "fetch_ad" | "analyze" | "llm" | "done"
    endpoint,    \* "GET" | "POST"
    env,         \* META_ACCESS_TOKEN, META_AD_ACCOUNT_ID, OPENAI_API_KEY
    body,        \* the query parameters / the request body
    include_levels, \* the levels the handler fetches
    calls,       \* log of page requests sent to the metrics API
    fetched,     \* the normalized records per level, None when not fetched
    response,    \* the HTTP response
    \* ---- successive calls of _build_prompt (ai_client.py 36-186)
    b_args,      \* the arguments, as the calls leave them
    b_args0,     \* the arguments as they were before the first call
    b_left,      \* the directive list the latest call built
    b_outs,      \* the prompts returned so far, in order
    \* ---- successive applications of _sanitize_analysis (main.py 75-149)
    s_text,      \* the text given to the first application
    s_outs,      \* the results so far, each application taking the one before
    \* ---- the chat of the frontend (app.py 63-64, 147-170, 215-271)
    c_pc,          \* "rest" between script runs, else the handler's position
    chat_messages, \* st.session_state.messages
    analysis_text, \* st.session_state.analysis_text
    user_input,    \* the text of the submission being handled
    c_reply,       \* what the POST of the submission came to
    posted         \* log of the payloads handed to requests.post

fetchVars == <<f_pc, f_fn, level, since, until, url, params, all_data,
               requests, served, f_result, f_error>>

pickVars == <<p_pc, p_actions, p_count, p_value>>

normVars == <<n_pc, n_level, raw, raw0, n_i, normalized, n_result>>

llmVars == <<l_pc, api_key, l_args, history, client, prompt, messages,
             chat_calls, l_result, l_error>>

reqVars == <<r_pc, endpoint, env, body, include_levels, calls, fetched, response>>

promptVars == <<b_args, b_args0, b_left, b_outs>>

sanVars == <<s_text, s_outs>>

chatVars == <<c_pc, chat_messages, analysis_text, user_input, c_reply, posted>>

vars == <<fetchVars, pickVars, normVars, llmVars, reqVars, promptVars, sanVars,
          chatVars>>

----------------------------------------------------------------------------
(* Bounds of the model *)

\* requests one fetch may issue before the model stops following next links
MaxPages == 3

\* pages one fetch of an analysis request may take
MaxFetchPages == 2

\* prior turns a call of the analysis client may carry
MaxTurns == 9

\* rows a served page may carry
MaxPageRows == 2

\* entries of an action list given to the purchase resolution
MaxActs == 3

\* rows of a raw list given to a normalizer
MaxRows == 3

\* successive calls of the prompt builder on the same arguments
MaxBuilds == 2

\* intent tags of one call of the prompt builder
MaxTags == 2

\* successive applications of the response sanitizer
MaxApplications == 2

----------------------------------------------------------------------------
(* Shared markers *)

NoResult == "NoResult"

NoError == [type |-> "none", message |-> ""]

None == "None"

\* Python truthiness of an optional string argument (None and "" are falsy)
Truthy(s) == s # None /\ s # ""

----------------------------------------------------------------------------
(* meta_client.py: the paginated fetch *)

GRAPH_BASE == "https://graph.facebook.com/v24.0/act_<id>/insights"

DefaultErrorMessage == "Erro ao consultar Meta Graph API"

DefaultDatePreset == "last_7d"

valid_levels == {"campaign", "adset", "ad"}

common_fields == <<"impressions", "clicks", "spend", "cpm", "cpc", "ctr",
                   "actions", "action_values">>

id_fields(lv) ==
    CASE lv = "campaign" -> <<"campaign_id", "campaign_name">>
      [] lv = "adset"    -> <<"adset_id", "adset_name", "campaign_id">>
      [] lv = "ad"       -> <<"ad_id", "ad_name", "adset_id", "campaign_id">>

FirstParams_LoneSince(lv, s, u) ==
    LET base == [k \in {"fields", "level", "limit", "access_token",
                        "action_report_time",
                        "use_unified_attribution_setting"} |->
                   CASE k = "fields" -> id_fields(lv) \o common_fields
                     [] k = "level" -> lv
                     [] k = "limit" -> "5000"
                     [] k = "access_token" -> "access_token"
                     [] k = "action_report_time" -> "conversion"
                     [] k = "use_unified_attribution_setting" -> "True"]
        key == IF Truthy(s) THEN "time_range" ELSE "date_preset"
        val == IF Truthy(s) THEN <<s, u>> ELSE DefaultDatePreset
    IN  [k \in DOMAIN base \cup {key} |-> IF k = key THEN val ELSE base[k]]

\* The params mapping of the first request (lines 57-83 and 145-156).
FirstParams(lv, s, u) ==
    LET base == [k \in {"fields", "level", "limit", "access_token",
                        "action_report_time",
                        "use_unified_attribution_setting"} |->
                   CASE k = "fields" -> id_fields(lv) \o common_fields
                     [] k = "level" -> lv
                     [] k = "limit" -> "5000"
                     [] k = "access_token" -> "access_token"
                     [] k = "action_report_time" -> "conversion"
                     [] k = "use_unified_attribution_setting" -> "True"]
        key == IF Truthy(s) /\ Truthy(u) THEN "time_range" ELSE "date_preset"
        val == IF Truthy(s) /\ Truthy(u) THEN <<s, u>> ELSE DefaultDatePreset
    IN  [k \in DOMAIN base \cup {key} |-> IF k = key THEN val ELSE base[k]]

EmptyParams == [k \in {} |-> ""]

\* Rows of the page served as the n-th response: distinct per page and position.
PageRows(n, count) == [i \in 1..count |-> 10 * n + i]

NextRefs == {None, "", "next_a", "next_b"}

\* A response of the metrics API: HTTP status, the body's "error" member
\* ("absent", "message" = an object with a message, "bare" = an object without),
\* the body's "data" member ("absent" or a row list) and paging.next.
Response(n) ==
    [status : {200}, error : {"absent"}, message : {""},
     has_data : {TRUE}, data : {PageRows(n, c) : c \in 0..MaxPageRows},
     next : NextRefs]
    \cup
    [status : {200}, error : {"absent"}, message : {""},
     has_data : {FALSE}, data : {<<>>}, next : {None, "next_a"}]
    \cup
    [status : {400, 200}, error : {"message"}, message : {"(#17) limit reached"},
     has_data : {TRUE}, data : {PageRows(n, 1)}, next : {"next_a"}]
    \cup
    [status : {500}, error : {"absent", "bare"}, message : {""},
     has_data : {FALSE}, data : {<<>>}, next : {None}]

IsErrorResponse_StatusOnly(r) == r.status # 200

\* resp.status_code != 200 or "error" in data (lines 90, 163)
IsErrorResponse(r) == r.status # 200 \/ r.error # "absent"

\* data.get("error", {}).get("message", default) (lines 91-92, 164-165)
ErrorMessage(r) == IF r.error = "message" THEN r.message ELSE DefaultErrorMessage

\* data.get("data", []) (lines 95, 168)
PageOf(r) == IF r.has_data THEN r.data ELSE <<>>

HasNext_NotNone(r) == r.next # None

\* if not next_url: break (lines 99-101, 172-174)
HasNext(r) == Truthy(r.next)

Extend_Overwrite(acc, page) == page

\* all_data.extend(page) (lines 96, 169)
Extend(acc, page) == acc \o page

\* The function is entered: level check (124-125), url and params built.
FetchCall ==
    /\ f_pc = "call"
    /\ IF f_fn = "fetch_insights_by_level" /\ level \notin valid_levels
       THEN /\ f_pc' = "raised"
            /\ f_error' = [type |-> "ValueError", message |-> "level invalido"]
            /\ UNCHANGED <<url, params, all_data>>
       ELSE /\ f_pc' = "loop"
            /\ url' = GRAPH_BASE
            /\ params' = FirstParams(level, since, until)
            /\ all_data' = <<>>
            /\ UNCHANGED f_error
    /\ UNCHANGED <<f_fn, level, since, until, requests, served, f_result>>

\* One iteration of `while True` (lines 86-105, 159-177): the GET, the error
\* check, the accumulation and the next link; the break falls to `return`.
FetchPageStep(resp) ==
    /\ requests' = Append(requests, [url |-> url, params |-> params])
    /\ served' = Append(served, resp)
    /\ IF IsErrorResponse(resp)
       THEN /\ f_pc' = "raised"
            /\ f_error' = [type |-> "RuntimeError", message |-> ErrorMessage(resp)]
            /\ UNCHANGED <<url, params, all_data, f_result>>
       ELSE /\ all_data' = Extend(all_data, PageOf(resp))
            /\ IF HasNext(resp)
               THEN /\ url' = resp.next
                    /\ params' = EmptyParams
                    /\ UNCHANGED <<f_pc, f_result>>
               ELSE /\ f_pc' = "returned"
                    /\ f_result' = all_data'
                    /\ UNCHANGED <<url, params>>
            /\ UNCHANGED f_error

FetchPage ==
    /\ f_pc = "loop"
    /\ Len(requests) < MaxPages
    /\ \E resp \in Response(Len(requests) + 1) : FetchPageStep(resp)
    /\ UNCHANGED <<f_fn, level, since, until>>

FetchArgs == {None, "", "2024-01-01"}

FetchInit ==
    /\ f_pc = "call"
    /\ \/ f_fn = "fetch_insights" /\ level = "campaign"
       \/ f_fn = "fetch_insights_by_level"
          /\ level \in valid_levels \cup {"account"}
    /\ since \in FetchArgs
    /\ until \in FetchArgs
    /\ url = ""
    /\ params = EmptyParams
    /\ all_data = <<>>
    /\ requests = <<>>
    /\ served = <<>>
    /\ f_result = NoResult
    /\ f_error = NoError

----------------------------------------------------------------------------
(* Python values of a raw row, and the numeric coercions of meta_client.py *)

\* Strings are sequences of one-character strings, so that lower() and
\* endswith() are computed and float() parses.
UpperChars == <<"A", "B", "C", "D", "E", "F", "G", "H", "I", "J", "K", "L", "M",
                "N", "O", "P", "Q", "R", "S", "T", "U", "V", "W", "X", "Y", "Z">>

LowerChars == <<"a", "b", "c", "d", "e", "f", "g", "h", "i", "j", "k", "l", "m",
                "n", "o", "p", "q", "r", "s", "t", "u", "v", "w", "x", "y", "z">>

DigitChars == <<"0", "1", "2", "3", "4", "5", "6", "7", "8", "9">>

\* c.lower() for one character
UpperToLower ==
    [c \in {UpperChars[i] : i \in 1..26} |->
        LowerChars[CHOOSE i \in 1..26 : UpperChars[i] = c]]

LowerChar(c) == IF c \in DOMAIN UpperToLower THEN UpperToLower[c] ELSE c

\* str.lower()
LowerStr(s) == [i \in 1..Len(s) |-> LowerChar(s[i])]

\* str.endswith(suffix)
EndsWith(s, suffix) ==
    /\ Len(s) >= Len(suffix)
    /\ SubSeq(s, Len(s) - Len(suffix) + 1, Len(s)) = suffix

\* A float: a finite rational n/d (d > 0), or one of the IEEE specials.
Fin(n, d) == [k |-> "fin", n |-> n, d |-> d]

NaN == [k |-> "nan", n |-> 0, d |-> 1]

PosInf == [k |-> "inf", n |-> 0, d |-> 1]

NegInf == [k |-> "ninf", n |-> 0, d |-> 1]

Zero == Fin(0, 1)

\* A JSON value: a missing key, null, a string, a number, a list or an object.
Missing == [t |-> "missing", s |-> <<>>, f |-> Zero, items |-> <<>>]

Null == [t |-> "none", s |-> <<>>, f |-> Zero, items |-> <<>>]

Str(chars) == [t |-> "str", s |-> chars, f |-> Zero, items |-> <<>>]

Num(x) == [t |-> "num", s |-> <<>>, f |-> x, items |-> <<>>]

List(xs) == [t |-> "list", s |-> <<>>, f |-> Zero, items |-> xs]

Dict(keys) == [t |-> "dict", s |-> <<>>, f |-> Zero, items |-> keys]

\* dict.get(key, default)
Get(v, default) == IF v.t = "missing" THEN default ELSE v

\* bool(v)
TruthyVal(v) ==
    CASE v.t = "missing" -> FALSE
      [] v.t = "none" -> FALSE
      [] v.t = "str" -> v.s # <<>>
      [] v.t = "num" -> ~(v.f.k = "fin" /\ v.f.n = 0)
      [] v.t = "list" -> v.items # <<>>
      [] v.t = "dict" -> v.items # <<>>

RECURSIVE Pow10(_)
Pow10(e) == IF e = 0 THEN 1 ELSE 10 * Pow10(e - 1)

DigitVal(c) == (CHOOSE i \in 1..10 : DigitChars[i] = c) - 1

IsDigit(c) == \E i \in 1..10 : DigitChars[i] = c

RECURSIVE DigitsToInt(_)
DigitsToInt(s) ==
    IF s = <<>> THEN 0
    ELSE 10 * DigitsToInt(SubSeq(s, 1, Len(s) - 1)) + DigitVal(s[Len(s)])

HasSign(s) == s # <<>> /\ s[1] \in {"+", "-"}

Unsigned(s) == IF HasSign(s) THEN Tail(s) ELSE s

IsSpecialLiteral(lit) ==
    LowerStr(lit) \in {<<"n", "a", "n">>, <<"i", "n", "f">>,
                        <<"i", "n", "f", "i", "n", "i", "t", "y">>}

IsDecimalLiteral(lit) ==
    /\ \A i \in 1..Len(lit) : IsDigit(lit[i]) \/ lit[i] = "."
    /\ Cardinality({i \in 1..Len(lit) : lit[i] = "."}) <= 1
    /\ \E i \in 1..Len(lit) : IsDigit(lit[i])

\* float(str) raises ValueError on anything but a signed decimal or a special
ParseFloatRaises(s) ==
    ~(IsSpecialLiteral(Unsigned(s)) \/ IsDecimalLiteral(Unsigned(s)))

ParseFloat(s) ==
    LET lit == Unsigned(s)
        neg == HasSign(s) /\ s[1] = "-"
        dot == IF \E i \in 1..Len(lit) : lit[i] = "."
               THEN CHOOSE i \in 1..Len(lit) : lit[i] = "."
               ELSE 0
        digits == SelectSeq(lit, IsDigit)
        frac == IF dot = 0 THEN 0 ELSE Len(lit) - dot
        mag == DigitsToInt(digits)
    IN  IF IsSpecialLiteral(lit)
        THEN (IF LowerStr(lit) = <<"n", "a", "n">> THEN NaN
              ELSE IF neg THEN NegInf ELSE PosInf)
        ELSE Fin(IF neg THEN 0 - mag ELSE mag, Pow10(frac))

\* float(x) raises TypeError for None, lists and objects, ValueError for a
\* string that does not parse.
PyFloatRaises(x) ==
    CASE x.t = "str" -> ParseFloatRaises(x.s)
      [] x.t = "num" -> FALSE
      [] OTHER -> TRUE

PyFloat(x) == IF x.t = "num" THEN x.f ELSE ParseFloat(x.s)

\* int(f) raises ValueError for nan and OverflowError for an infinity
PyIntRaises(f) == f.k # "fin"

\* int(f) truncates toward zero
PyInt(f) == IF f.n >= 0 THEN f.n \div f.d ELSE 0 - ((0 - f.n) \div f.d)

\* def _to_int(x): try int(float(x)) except Exception: 0
_to_int(x) ==
    IF PyFloatRaises(x) THEN 0
    ELSE IF PyIntRaises(PyFloat(x)) THEN 0
    ELSE PyInt(PyFloat(x))

\* def _to_float(x): try float(x) except Exception: 0.0
_to_float(x) == IF PyFloatRaises(x) THEN Zero ELSE PyFloat(x)

RECURSIVE GCD(_, _)
GCD(a, b) == IF b = 0 THEN a ELSE GCD(b, a % b)

\* n/d in lowest terms (d > 0)
Reduced(n, d) ==
    LET g == GCD(IF n < 0 THEN 0 - n ELSE n, d)
    IN  Fin(n \div g, d \div g)

\* x > 0 on floats (False for nan)
FGt0(x) ==
    CASE x.k = "fin" -> x.n > 0
      [] x.k = "inf" -> TRUE
      [] OTHER -> FALSE

\* a + b
FAdd(a, b) ==
    CASE a.k = "nan" \/ b.k = "nan" -> NaN
      [] a.k = "fin" /\ b.k = "fin" -> Reduced(a.n * b.d + b.n * a.d, a.d * b.d)
      [] a.k = "fin" -> b
      [] b.k = "fin" -> a
      [] a.k = b.k -> a
      [] OTHER -> NaN

\* a / b for b > 0 (the only divisions of the module are guarded by b > 0)
FDiv(a, b) ==
    CASE a.k = "nan" -> NaN
      [] b.k = "inf" -> (IF a.k = "fin" THEN Zero ELSE NaN)
      [] a.k = "fin" ->
            LET x == Reduced(a.n, a.d)
                y == Reduced(b.n, b.d)
                g == GCD(IF x.n < 0 THEN 0 - x.n ELSE x.n, y.n)
                h == GCD(y.d, x.d)
            IN  IF x.n = 0 THEN Zero
                ELSE Reduced((x.n \div g) * (y.d \div h), (x.d \div h) * (y.n \div g))
      [] OTHER -> a

\* n/d rounded to the nearest integer, ties to even (d > 0)
RoundHalfEven(n, d) ==
    LET q == n \div d
        r == n - q * d
    IN  IF 2 * r < d THEN q
        ELSE IF 2 * r > d THEN q + 1
        ELSE IF q % 2 = 0 THEN q ELSE q + 1

\* round(x, 4): a finite value becomes a multiple of 1/10000, a special stays.
\* (The rational is rounded exactly; a binary double sitting on a decimal tie
\* may round either way, and the inputs of the model avoid such ties.)
Round4(x) ==
    IF x.k = "fin"
    THEN Fin((x.n \div x.d) * 10000 + RoundHalfEven((x.n % x.d) * 10000, x.d),
             10000)
    ELSE x

----------------------------------------------------------------------------
(* meta_client.py: purchase resolution *)

T_omni_purchase == <<"o", "m", "n", "i", "_", "p", "u", "r", "c", "h", "a", "s", "e">>

T_offsite_fb_pixel_purchase == <<"o", "f", "f", "s", "i", "t", "e", "_", "c", "o", "n", "v", "e", "r", "s", "i", "o", "n", ".", "f", "b", "_", "p", "i", "x", "e", "l", "_", "p", "u", "r", "c", "h", "a", "s", "e">>

T_offsite_purchase == <<"o", "f", "f", "s", "i", "t", "e", "_", "c", "o", "n", "v", "e", "r", "s", "i", "o", "n", ".", "p", "u", "r", "c", "h", "a", "s", "e">>

T_onsite_purchase == <<"o", "n", "s", "i", "t", "e", "_", "c", "o", "n", "v", "e", "r", "s", "i", "o", "n", ".", "p", "u", "r", "c", "h", "a", "s", "e">>

T_fb_pixel_purchase == <<"f", "b", "_", "p", "i", "x", "e", "l", "_", "p", "u", "r", "c", "h", "a", "s", "e">>

T_purchase == <<"p", "u", "r", "c", "h", "a", "s", "e">>

\* Tags outside the priority list that the model's action lists carry
T_OMNI_PURCHASE_upper == <<"O", "M", "N", "I", "_", "P", "U", "R", "C", "H", "A", "S", "E">>

T_custom_purchase == <<"o", "f", "f", "s", "i", "t", "e", "_", "c", "o", "n", "v", "e", "r", "s", "i", "o", "n", ".", "c", "u", "s", "t", "o", "m", "_", "p", "u", "r", "c", "h", "a", "s", "e">>

T_App_Purchase == <<"A", "p", "p", ".", "P", "u", "r", "c", "h", "a", "s", "e">>

T_link_click == <<"l", "i", "n", "k", "_", "c", "l", "i", "c", "k">>

T_purchase_roas == <<"p", "u", "r", "c", "h", "a", "s", "e", "_", "r", "o", "a", "s">>

SuffixDotPurchase == <<".", "p", "u", "r", "c", "h", "a", "s", "e">>

SuffixUnderscorePurchase == <<"_", "p", "u", "r", "c", "h", "a", "s", "e">>

\* An entry of an actions / action_values list: an object with the members
\* action_type and value, or anything else (kind "other").
Entry(tag, value) == [kind |-> "dict", action_type |-> tag, value |-> value]

NotAMapping == [kind |-> "other", action_type |-> Missing, value |-> Missing]

RECURSIVE NatToStr(_)
NatToStr(n) ==
    IF n < 10 THEN <<DigitChars[n + 1]>>
    ELSE NatToStr(n \div 10) \o <<DigitChars[(n % 10) + 1]>>

\* str(v) for the values an action_type can hold
PyStr(v) ==
    CASE v.t = "str" -> v.s
      [] v.t = "none" -> <<"N", "o", "n", "e">>
      [] v.t = "num" -> NatToStr(v.f.n)

allowed == {T_purchase, T_fb_pixel_purchase, T_offsite_purchase,
            T_offsite_fb_pixel_purchase, T_onsite_purchase, T_omni_purchase}

\* (action_type or "").lower() raises AttributeError on a truthy non-string
IsPurchaseTypeRaises(action_type) ==
    TruthyVal(action_type) /\ action_type.t # "str"

_is_purchase_type_NoUnderscore(action_type) ==
    LET at == IF TruthyVal(action_type) THEN LowerStr(action_type.s) ELSE <<>>
    IN  at \in allowed \/ EndsWith(at, SuffixDotPurchase)

\* def _is_purchase_type(action_type) (lines 182-192)
_is_purchase_type(action_type) ==
    LET at == IF TruthyVal(action_type) THEN LowerStr(action_type.s) ELSE <<>>
    IN  \/ at \in allowed
        \/ EndsWith(at, SuffixDotPurchase)
        \/ EndsWith(at, SuffixUnderscorePurchase)

PURCHASE_PRIORITY_Reversed ==
    <<T_purchase, T_fb_pixel_purchase, T_onsite_purchase, T_offsite_purchase,
      T_offsite_fb_pixel_purchase, T_omni_purchase>>

\* PURCHASE_PRIORITY (lines 195-202)
PURCHASE_PRIORITY ==
    <<T_omni_purchase, T_offsite_fb_pixel_purchase, T_offsite_purchase,
      T_onsite_purchase, T_fb_pixel_purchase, T_purchase>>

\* `actions or []`, iterated: a falsy value gives no entries
Entries(actions) == IF TruthyVal(actions) THEN actions.items ELSE <<>>

\* by_type = {str(a.get("action_type", "")).lower(): a for a in ...}: a later
\* entry replaces an earlier one with the same lowercased tag (lines 206, 220)
RECURSIVE by_type(_)
by_type(items) ==
    IF items = <<>> THEN [k \in {} |-> NotAMapping]
    ELSE LET a == items[Len(items)]
             before == by_type(SubSeq(items, 1, Len(items) - 1))
             key == LowerStr(PyStr(Get(a.action_type, Str(<<>>))))
         IN  [k \in DOMAIN before \cup {key} |-> IF k = key THEN a ELSE before[k]]

\* for t in PURCHASE_PRIORITY: the first t with by_type.get(t) is not None
\* (its index, 0 when there is none)
FirstPriorityIn(by) ==
    LET hits == {i \in 1..Len(PURCHASE_PRIORITY) : PURCHASE_PRIORITY[i] \in DOMAIN by}
    IN  IF hits = {} THEN 0 ELSE CHOOSE i \in hits : \A j \in hits : i <= j

FirstPriority(items) == FirstPriorityIn(by_type(items))

\* Building by_type raises on a list that is no list (iterating a number is a
\* TypeError, the characters of a string and the keys of an object have no
\* .get) and on an entry that is no mapping; the fallback loop raises on a
\* truthy action_type that is no string.
PickRaises(actions) ==
    \/ TruthyVal(actions) /\ actions.t # "list"
    \/ \E i \in 1..Len(Entries(actions)) : Entries(actions)[i].kind # "dict"
    \/ /\ \E i \in 1..Len(Entries(actions)) :
            IsPurchaseTypeRaises(Get(Entries(actions)[i].action_type, Null))
       /\ FirstPriority(Entries(actions)) = 0

RECURSIVE SumCount(_)
SumCount(items) ==
    IF items = <<>> THEN 0
    ELSE (IF _is_purchase_type(Get(items[1].action_type, Null))
          THEN _to_int(Get(items[1].value, Num(Zero))) ELSE 0)
         + SumCount(Tail(items))

RECURSIVE SumValue(_, _)
SumValue(total, items) ==
    IF items = <<>> THEN total
    ELSE SumValue(IF _is_purchase_type(Get(items[1].action_type, Null))
                  THEN FAdd(total, _to_float(Get(items[1].value, Num(Zero))))
                  ELSE total,
                  Tail(items))

\* def _pick_purchase_count(actions) (lines 205-216), when it does not raise
_pick_purchase_count(actions) ==
    LET items == Entries(actions)
        by == by_type(items)
        t == FirstPriorityIn(by)
    IN  IF t # 0
        THEN _to_int(Get(by[PURCHASE_PRIORITY[t]].value, Num(Zero)))
        ELSE SumCount(items)

\* def _pick_purchase_value(action_values) (lines 219-230), when it does not raise
_pick_purchase_value(action_values) ==
    LET items == Entries(action_values)
        by == by_type(items)
        t == FirstPriorityIn(by)
    IN  IF t # 0
        THEN _to_float(Get(by[PURCHASE_PRIORITY[t]].value, Num(Zero)))
        ELSE SumValue(Zero, items)

----------------------------------------------------------------------------
(* meta_client.py: the three normalizers *)

S_sem_nome == <<"(", "s", "e", "m", " ", "n", "o", "m", "e", ")">>

\* row.get("actions", []) or [] (lines 254-255)
OrEmptyList(v) == IF TruthyVal(v) THEN v ELSE List(<<>>)

\* ctr_calc = (clicks / impressions * 100.0) if impressions > 0 else 0.0 (251)
ctr_calc(clicks, impressions) ==
    IF impressions > 0 THEN Fin(clicks * 100, impressions) ELSE Zero

\* ctr = ctr_calc if ctr_calc > 0 else ctr_raw (252)
ctr_of(calc, ctr_raw) == IF FGt0(calc) THEN calc ELSE ctr_raw

roas_of_Inverted(purchase_value, spend) ==
    IF FGt0(spend) /\ FGt0(purchase_value) THEN FDiv(spend, purchase_value)
    ELSE Zero

\* roas = (purchase_value / spend) if spend > 0 else 0.0 (260)
roas_of(purchase_value, spend) ==
    IF FGt0(spend) THEN FDiv(purchase_value, spend) ELSE Zero

Metrics_ValueOfCountTag(row) ==
    LET impressions == _to_int(Get(row.impressions, Num(Zero)))
        clicks == _to_int(Get(row.clicks, Num(Zero)))
        spend == _to_float(Get(row.spend, Num(Zero)))
        cpm == _to_float(Get(row.cpm, Num(Zero)))
        cpc == _to_float(Get(row.cpc, Num(Zero)))
        ctr_raw == _to_float(Get(row.ctr, Num(Zero)))
        ctr == ctr_of(ctr_calc(clicks, impressions), ctr_raw)
        purchases == _pick_purchase_count(OrEmptyList(row.actions))
        purchase_value == _pick_purchase_value(OrEmptyList(row.actions))
        roas == roas_of(purchase_value, spend)
    IN  [impressions |-> impressions,
         clicks |-> clicks,
         spend |-> Round4(spend),
         cpm |-> Round4(cpm),
         cpc |-> Round4(cpc),
         ctr |-> Round4(ctr),
         purchases |-> purchases,
         purchase_value |-> Round4(purchase_value),
         roas |-> Round4(roas)]

\* The numeric part of a record of normalize_insights (lines 243-260, 266-274)
Metrics(row) ==
    LET impressions == _to_int(Get(row.impressions, Num(Zero)))
        clicks == _to_int(Get(row.clicks, Num(Zero)))
        spend == _to_float(Get(row.spend, Num(Zero)))
        cpm == _to_float(Get(row.cpm, Num(Zero)))
        cpc == _to_float(Get(row.cpc, Num(Zero)))
        ctr_raw == _to_float(Get(row.ctr, Num(Zero)))
        ctr == ctr_of(ctr_calc(clicks, impressions), ctr_raw)
        purchases == _pick_purchase_count(OrEmptyList(row.actions))
        purchase_value == _pick_purchase_value(OrEmptyList(row.action_values))
        roas == roas_of(purchase_value, spend)
    IN  [impressions |-> impressions,
         clicks |-> clicks,
         spend |-> Round4(spend),
         cpm |-> Round4(cpm),
         cpc |-> Round4(cpc),
         ctr |-> Round4(ctr),
         purchases |-> purchases,
         purchase_value |-> Round4(purchase_value),
         roas |-> Round4(roas)]

\* The numeric part of a record of normalize_insights_adset (lines 284-297, 304-312)
MetricsAdset(row) ==
    LET impressions == _to_int(Get(row.impressions, Num(Zero)))
        clicks == _to_int(Get(row.clicks, Num(Zero)))
        spend == _to_float(Get(row.spend, Num(Zero)))
        cpm == _to_float(Get(row.cpm, Num(Zero)))
        cpc == _to_float(Get(row.cpc, Num(Zero)))
        ctr_raw == _to_float(Get(row.ctr, Num(Zero)))
        ctr == ctr_of(ctr_calc(clicks, impressions), ctr_raw)
        purchases == _pick_purchase_count(OrEmptyList(row.actions))
        purchase_value == _pick_purchase_value(OrEmptyList(row.action_values))
        roas == roas_of(purchase_value, spend)
    IN  [impressions |-> impressions,
         clicks |-> clicks,
         spend |-> Round4(spend),
         cpm |-> Round4(cpm),
         cpc |-> Round4(cpc),
         ctr |-> Round4(ctr),
         purchases |-> purchases,
         purchase_value |-> Round4(purchase_value),
         roas |-> Round4(roas)]

MetricsAd_ProviderCtr(row) ==
    LET impressions == _to_int(Get(row.impressions, Num(Zero)))
        clicks == _to_int(Get(row.clicks, Num(Zero)))
        spend == _to_float(Get(row.spend, Num(Zero)))
        cpm == _to_float(Get(row.cpm, Num(Zero)))
        cpc == _to_float(Get(row.cpc, Num(Zero)))
        ctr_raw == _to_float(Get(row.ctr, Num(Zero)))
        ctr == ctr_raw
        purchases == _pick_purchase_count(OrEmptyList(row.actions))
        purchase_value == _pick_purchase_value(OrEmptyList(row.action_values))
        roas == roas_of(purchase_value, spend)
    IN  [impressions |-> impressions,
         clicks |-> clicks,
         spend |-> Round4(spend),
         cpm |-> Round4(cpm),
         cpc |-> Round4(cpc),
         ctr |-> Round4(ctr),
         purchases |-> purchases,
         purchase_value |-> Round4(purchase_value),
         roas |-> Round4(roas)]

\* The numeric part of a record of normalize_insights_ad (lines 321-334, 342-350)
MetricsAd(row) ==
    LET impressions == _to_int(Get(row.impressions, Num(Zero)))
        clicks == _to_int(Get(row.clicks, Num(Zero)))
        spend == _to_float(Get(row.spend, Num(Zero)))
        cpm == _to_float(Get(row.cpm, Num(Zero)))
        cpc == _to_float(Get(row.cpc, Num(Zero)))
        ctr_raw == _to_float(Get(row.ctr, Num(Zero)))
        ctr == ctr_of(ctr_calc(clicks, impressions), ctr_raw)
        purchases == _pick_purchase_count(OrEmptyList(row.actions))
        purchase_value == _pick_purchase_value(OrEmptyList(row.action_values))
        roas == roas_of(purchase_value, spend)
    IN  [impressions |-> impressions,
         clicks |-> clicks,
         spend |-> Round4(spend),
         cpm |-> Round4(cpm),
         cpc |-> Round4(cpc),
         ctr |-> Round4(ctr),
         purchases |-> purchases,
         purchase_value |-> Round4(purchase_value),
         roas |-> Round4(roas)]

\* The numeric part of a record, by normalizer
MetricsOf(lv, row) ==
    CASE lv = "campaign" -> Metrics(row)
      [] lv = "adset" -> MetricsAdset(row)
      [] lv = "ad" -> MetricsAd(row)

\* The identification part of a record (lines 264-265, 301-303, 338-341)
Ids(lv, row) ==
    CASE lv = "campaign" ->
           [campaign_id |-> Get(row.campaign_id, Str(<<>>)),
            campaign_name |-> Get(row.campaign_name, Str(S_sem_nome)),
            adset_id |-> Missing, adset_name |-> Missing,
            ad_id |-> Missing, ad_name |-> Missing]
      [] lv = "adset" ->
           [adset_id |-> Get(row.adset_id, Str(<<>>)),
            adset_name |-> Get(row.adset_name, Str(S_sem_nome)),
            campaign_id |-> Get(row.campaign_id, Null),
            campaign_name |-> Missing, ad_id |-> Missing, ad_name |-> Missing]
      [] lv = "ad" ->
           [ad_id |-> Get(row.ad_id, Str(<<>>)),
            ad_name |-> Get(row.ad_name, Str(S_sem_nome)),
            adset_id |-> Get(row.adset_id, Null),
            campaign_id |-> Get(row.campaign_id, Null),
            campaign_name |-> Missing, adset_name |-> Missing]

\* The record appended for one row: a record field that the level's dict does
\* not have is Missing.
NormalizeRow(lv, row) == [ids |-> Ids(lv, row), m |-> MetricsOf(lv, row)]

\* The body of the loop raises exactly when a purchase pick raises
NormalizeRowRaises(row) ==
    \/ PickRaises(OrEmptyList(row.actions))
    \/ PickRaises(OrEmptyList(row.action_values))

----------------------------------------------------------------------------
(* Purchase resolution applied to one action list *)

S_3 == <<"3">>

S_5 == <<"5">>

S_2_5 == <<"2", ".", "5">>

S_abc == <<"a", "b", "c">>

\* Entries of the action lists the resolution is driven with
PickEntries ==
    {Entry(Str(T_omni_purchase), Str(S_3)),
     Entry(Str(T_omni_purchase), Str(S_5)),
     Entry(Str(T_omni_purchase), Str(S_abc)),
     Entry(Str(T_OMNI_PURCHASE_upper), Str(S_2_5)),
     Entry(Str(T_fb_pixel_purchase), Str(S_3)),
     Entry(Str(T_purchase), Str(S_5)),
     Entry(Str(T_purchase), Str(S_2_5)),
     Entry(Str(T_custom_purchase), Str(S_2_5)),
     Entry(Str(T_custom_purchase), Str(S_abc)),
     Entry(Str(T_App_Purchase), Str(S_3)),
     Entry(Str(T_link_click), Str(S_5)),
     Entry(Str(T_purchase_roas), Str(S_3))}

PickLists == UNION {[1..n -> PickEntries] : n \in 0..MaxActs}

PickInit ==
    /\ p_pc = "call"
    /\ p_actions \in {List(items) : items \in PickLists}
    /\ p_count = 0
    /\ p_value = Zero

\* _pick_purchase_count(actions) and _pick_purchase_value(actions) are called
PickApply ==
    /\ p_pc = "call"
    /\ IF PickRaises(p_actions)
       THEN p_pc' = "raised" /\ UNCHANGED <<p_count, p_value>>
       ELSE /\ p_pc' = "done"
            /\ p_count' = _pick_purchase_count(p_actions)
            /\ p_value' = _pick_purchase_value(p_actions)
    /\ UNCHANGED p_actions

PickIdle ==
    /\ p_pc = "idle"
    /\ p_actions = List(<<>>)
    /\ p_count = 0
    /\ p_value = Zero

----------------------------------------------------------------------------
(* The normalizers' loop over a raw row list *)

NormalizerOf(lv) ==
    CASE lv = "campaign" -> "normalize_insights"
      [] lv = "adset" -> "normalize_insights_adset"
      [] lv = "ad" -> "normalize_insights_ad"

AppendRecord_Prepend(list, rec) == <<rec>> \o list

\* normalized.append({...}) (lines 262, 299, 336)
AppendRecord(list, rec) == Append(list, rec)

\* normalized = [] (lines 241, 282, 319)
NormCall ==
    /\ n_pc = "call"
    /\ n_pc' = "loop"
    /\ normalized' = <<>>
    /\ n_i' = 1
    /\ UNCHANGED <<n_level, raw, raw0, n_result>>

\* One pass of `for row in raw` (lines 242-276, 283-314, 320-352)
NormRow ==
    /\ n_pc = "loop"
    /\ n_i <= Len(raw)
    /\ IF NormalizeRowRaises(raw[n_i])
       THEN n_pc' = "raised" /\ UNCHANGED <<normalized, n_i>>
       ELSE /\ normalized' = AppendRecord(normalized, NormalizeRow(n_level, raw[n_i]))
            /\ n_i' = n_i + 1
            /\ UNCHANGED n_pc
    /\ UNCHANGED <<n_level, raw, raw0, n_result>>

\* return normalized (lines 278, 315, 353)
NormReturn ==
    /\ n_pc = "loop"
    /\ n_i > Len(raw)
    /\ n_pc' = "returned"
    /\ n_result' = normalized
    /\ UNCHANGED <<n_level, raw, raw0, n_i, normalized>>

NormIdle ==
    /\ n_pc = "idle"
    /\ n_level = "campaign"
    /\ raw = <<>>
    /\ raw0 = <<>>
    /\ n_i = 0
    /\ normalized = <<>>
    /\ n_result = NoResult

----------------------------------------------------------------------------
(* Raw rows the normalizers are driven with *)

S_0 == <<"0">>

S_200 == <<"2", "0", "0">>

S_4000000 == <<"4", "0", "0", "0", "0", "0", "0">>

S_neg_4 == <<"-", "4">>

S_7_9 == <<"7", ".", "9">>

S_neg_7_9 == <<"-", "7", ".", "9">>

S_10_50 == <<"1", "0", ".", "5", "0">>

S_1_5 == <<"1", ".", "5">>

S_1_23456 == <<"1", ".", "2", "3", "4", "5", "6">>

S_0_00004 == <<"0", ".", "0", "0", "0", "0", "4">>

S_1_00006 == <<"1", ".", "0", "0", "0", "0", "6">>

S_nan == <<"n", "a", "n">>

S_inf == <<"i", "n", "f">>

S_neg_Infinity == <<"-", "I", "n", "f", "i", "n", "i", "t", "y">>

S_1_2_3 == <<"1", ".", "2", ".", "3">>

BaseRow ==
    [impressions |-> Str(S_200), clicks |-> Str(S_3), spend |-> Str(S_10_50),
     cpm |-> Str(S_1_5), cpc |-> Str(S_2_5), ctr |-> Str(S_1_23456),
     actions |-> List(<<Entry(Str(T_omni_purchase), Str(S_3))>>),
     action_values |-> List(<<Entry(Str(T_omni_purchase), Str(S_2_5))>>),
     campaign_id |-> Str(<<"c", "1">>), campaign_name |-> Str(<<"C", "1">>),
     adset_id |-> Str(<<"s", "1">>), adset_name |-> Str(<<"S", "1">>),
     ad_id |-> Str(<<"a", "1">>), ad_name |-> Str(<<"A", "1">>)]

MetricFields == {"impressions", "clicks", "spend", "cpm", "cpc", "ctr"}

\* Values a metric field may hold: absent, null, numeric and non-numeric
\* strings, JSON numbers (NaN and Infinity included), a list.
MetricPool ==
    {Missing, Null, List(<<>>),
     Str(S_0), Str(S_200), Str(S_7_9), Str(S_neg_7_9), Str(S_neg_4),
     Str(S_0_00004), Str(S_abc), Str(<<>>), Str(S_1_2_3),
     Str(S_nan), Str(S_inf), Str(S_neg_Infinity),
     Num(Fin(3, 1)), Num(Fin(0 - 2, 1)), Num(Fin(25, 10)), Num(NaN), Num(PosInf)}

CoerceRows == {[BaseRow EXCEPT ![f] = v] : f \in MetricFields, v \in MetricPool}

CtrRows ==
    {[BaseRow EXCEPT !.impressions = i, !.clicks = c, !.ctr = t] :
        i \in {Missing, Str(S_0), Str(S_200), Str(S_4000000), Str(S_neg_4)},
        c \in {Str(S_0), Str(S_3), Str(S_7_9), Str(S_neg_4), Null},
        t \in {Missing, Str(S_1_23456), Str(S_abc), Str(S_0)}}

\* Values an actions / action_values field may hold
ActionFieldPool ==
    {Missing, Null, List(<<>>),
     List(<<Entry(Str(T_omni_purchase), Str(S_3))>>),
     List(<<Entry(Str(T_fb_pixel_purchase), Str(S_3)),
            Entry(Str(T_omni_purchase), Str(S_5))>>),
     List(<<Entry(Str(T_custom_purchase), Str(S_2_5)),
            Entry(Str(T_link_click), Str(S_5)),
            Entry(Str(T_App_Purchase), Str(S_3))>>),
     List(<<Entry(Str(T_purchase), Str(S_abc)),
            Entry(Str(T_custom_purchase), Str(S_5))>>),
     List(<<Entry(Str(T_purchase), Missing)>>),
     List(<<Entry(Str(T_purchase), Str(S_nan))>>),
     List(<<Entry(Missing, Str(S_3)), Entry(Null, Str(S_5))>>),
     List(<<Entry(Str(T_omni_purchase), Str(S_neg_4))>>),
     List(<<Entry(Num(Fin(5, 1)), Str(S_3))>>),
     List(<<Entry(Str(T_omni_purchase), Str(S_3)), NotAMapping>>),
     Str(S_abc), Num(Fin(5, 1)), Dict(<<NotAMapping>>), Str(<<>>)}

ActionRows ==
    {[BaseRow EXCEPT !.actions = a, !.action_values = av] :
        a \in ActionFieldPool, av \in ActionFieldPool}

RoasRows ==
    {[BaseRow EXCEPT !.spend = s, !.action_values = av] :
        s \in {Missing, Str(S_0), Str(S_10_50), Str(S_0_00004), Str(S_1_00006),
               Str(S_neg_4), Str(S_nan), Str(S_inf), Str(S_abc)},
        av \in {List(<<>>),
                List(<<Entry(Str(T_omni_purchase), Str(S_3))>>),
                List(<<Entry(Str(T_purchase), Str(S_2_5))>>),
                List(<<Entry(Str(T_purchase), Str(S_nan))>>),
                List(<<Entry(Str(T_purchase), Str(S_inf))>>),
                List(<<Entry(Str(T_custom_purchase), Str(S_2_5)),
                       Entry(Str(T_App_Purchase), Str(S_3))>>)}}

IdRows ==
    {[BaseRow EXCEPT !.campaign_id = c, !.campaign_name = n, !.adset_id = c,
                     !.adset_name = n, !.ad_id = c, !.ad_name = n] :
        c \in {Missing, Null}, n \in {Missing, Null}}

RowPool == CoerceRows \cup CtrRows \cup ActionRows \cup RoasRows \cup IdRows

\* Rows of the longer lists: distinct in their identification and metrics, one
\* of them with malformed metrics and one on which the loop raises.
ListRows ==
    {BaseRow,
     [BaseRow EXCEPT !.campaign_id = Str(<<"c", "2">>),
                     !.adset_id = Str(<<"s", "2">>), !.ad_id = Str(<<"a", "2">>),
                     !.impressions = Str(S_4000000), !.clicks = Str(S_7_9),
                     !.spend = Str(S_1_00006)],
     [BaseRow EXCEPT !.campaign_id = Str(<<"c", "3">>), !.campaign_name = Missing,
                     !.adset_name = Missing, !.ad_name = Missing,
                     !.impressions = Str(S_abc), !.spend = Null,
                     !.actions = Null, !.action_values = Missing],
     [BaseRow EXCEPT !.campaign_id = Str(<<"c", "4">>),
                     !.actions = List(<<NotAMapping>>)]}

RowLists == UNION {[1..n -> ListRows] : n \in 0..MaxRows}

NormInit ==
    /\ n_pc = "call"
    /\ n_level \in valid_levels
    /\ raw \in {<<r>> : r \in RowPool} \cup RowLists
    /\ raw0 = raw
    /\ n_i = 0
    /\ normalized = <<>>
    /\ n_result = NoResult

----------------------------------------------------------------------------
(* ai_client.py: the prompt builder *)

\* head(n) of _top_n (line 12)
TopCount == 5

\* a - b and a < b on finite floats
FSub(a, b) ==
    LET x == Reduced(a.n, a.d)
        y == Reduced(b.n, b.d)
    IN  Reduced(x.n * y.d - y.n * x.d, x.d * y.d)

FLt(a, b) == FSub(a, b).n < 0

\* x * k for an integer k
FTimes(x, k) == Reduced(Reduced(x.n, x.d).n * k, Reduced(x.n, x.d).d)

\* f"{x:.2f}" (line 32): the value rounded to two decimals
Round2(x) ==
    Fin((x.n \div x.d) * 100 + RoundHalfEven((x.n % x.d) * 100, x.d), 100)

\* The columns of a data frame made of a level's records (lines 51, 63, 74):
\* the keys of the records, in their order
Columns(lv) ==
    CASE lv = "campaign" ->
           <<"campaign_id", "campaign_name", "impressions", "clicks", "spend",
             "cpm", "cpc", "ctr", "purchases", "purchase_value", "roas">>
      [] lv = "adset" ->
           <<"adset_id", "adset_name", "campaign_id", "impressions", "clicks",
             "spend", "cpm", "cpc", "ctr", "purchases", "purchase_value", "roas">>
      [] lv = "ad" ->
           <<"ad_id", "ad_name", "adset_id", "campaign_id", "impressions",
             "clicks", "spend", "cpm", "cpc", "ctr", "purchases",
             "purchase_value", "roas">>

\* The section label of a level (lines 60, 71, 82, 90-96, 117-121)
LevelLabel(lv) ==
    CASE lv = "campaign" -> "Campanhas"
      [] lv = "adset" -> "Conjuntos"
      [] lv = "ad" -> "Anúncios"

\* df[name] of one record, as a float
Col(rec, name) ==
    CASE name = "impressions" -> Fin(rec.m.impressions, 1)
      [] name = "clicks" -> Fin(rec.m.clicks, 1)
      [] name = "purchases" -> Fin(rec.m.purchases, 1)
      [] OTHER -> rec.m[name]

RECURSIVE ColumnSum(_, _)
\* float(df[name].sum()) (lines 54-55)
ColumnSum(recs, name) ==
    IF recs = <<>> THEN Zero
    ELSE FAdd(Col(recs[1], name), ColumnSum(Tail(recs), name))

\* float(df[name].sum()) or 1.0 (lines 54-55, 65-66, 76-77)
TotalOrOne(recs, name) ==
    IF ColumnSum(recs, name).n = 0 THEN Fin(1, 1) ELSE ColumnSum(recs, name)

\* (df[name] / total) * 100 (lines 56-57, 67-68, 78-79); a negative total
\* divides as the negated pair
Share(value, total) ==
    IF total.n > 0 THEN FTimes(FDiv(value, total), 100)
    ELSE FTimes(FDiv(FSub(Zero, value), FSub(Zero, total)), 100)

RECURSIVE InsertDesc(_, _, _)
InsertDesc(sorted, rec, by) ==
    IF sorted = <<>> THEN <<rec>>
    ELSE IF FLt(Col(sorted[1], by), Col(rec, by)) THEN <<rec>> \o sorted
    ELSE <<sorted[1]>> \o InsertDesc(Tail(sorted), rec, by)

RECURSIVE SortDesc(_, _)
\* df.sort_values(by=by, ascending=False) (lines 15, 59, 70, 81); records
\* with equal keys keep their order
SortDesc(recs, by) ==
    IF recs = <<>> THEN <<>>
    ELSE InsertDesc(SortDesc(SubSeq(recs, 1, Len(recs) - 1), by), recs[Len(recs)], by)

\* One level's block of the CSV view (lines 50-82): the rows with their
\* share columns, sorted by roas
CsvBlock(lv, recs) ==
    LET total_spend == TotalOrOne(recs, "spend")
        total_rev == TotalOrOne(recs, "purchase_value")
        sorted == SortDesc(recs, "roas")
    IN  [label |-> LevelLabel(lv),
         columns |-> Columns(lv) \o <<"spend_share", "rev_share">>,
         rows |-> [i \in 1..Len(sorted) |->
                     [rec |-> sorted[i],
                      spend_share |-> Share(sorted[i].m.spend, total_spend),
                      rev_share |-> Share(sorted[i].m.purchase_value, total_rev)]]]

\* One line of the availability summary (lines 88-96)
SummaryLine(lv, recs) ==
    [label |-> LevelLabel(lv), rows |-> Len(recs), columns |-> Columns(lv)]

\* _top_n(df, by, cols=cols) (lines 12-18) under its heading
TopBlock(heading, lv, recs, by, cols) ==
    LET sorted == SortDesc(recs, by)
        n == IF Len(sorted) < TopCount THEN Len(sorted) ELSE TopCount
    IN  [label |-> heading,
         columns |-> SelectSeq(cols, LAMBDA c : \E j \in 1..Len(Columns(lv)) : Columns(lv)[j] = c),
         rows |-> SubSeq(sorted, 1, n)]

RECURSIVE InsertAsc(_, _)
InsertAsc(sorted, v) ==
    IF sorted = <<>> THEN <<v>>
    ELSE IF FLt(v, sorted[1]) THEN <<v>> \o sorted
    ELSE <<sorted[1]>> \o InsertAsc(Tail(sorted), v)

RECURSIVE SortedColumn(_, _)
SortedColumn(recs, name) ==
    IF recs = <<>> THEN <<>>
    ELSE InsertAsc(SortedColumn(Tail(recs), name), Col(recs[1], name))

\* series.quantile(q4 / 4) (lines 29-31): linear interpolation between the
\* two nearest ranks
Quantile(sorted, q4) ==
    LET pos4 == (Len(sorted) - 1) * q4
        lo == (pos4 \div 4) + 1
        hi == IF pos4 % 4 = 0 THEN lo ELSE lo + 1
        step == FSub(sorted[hi], sorted[lo])
    IN  FAdd(sorted[lo], Reduced(step.n * (pos4 % 4), step.d * 4))

\* metrics of _stats_block (line 24)
StatsMetrics == <<"roas", "purchases", "purchase_value", "ctr", "cpc", "spend">>

\* _stats_block(df, label) (lines 21-33)
StatsBlock(lv, recs) ==
    [label |-> LevelLabel(lv),
     lines |-> [i \in 1..Len(StatsMetrics) |->
                  LET sorted == SortedColumn(recs, StatsMetrics[i])
                  IN  [metric |-> StatsMetrics[i],
                       p25 |-> Round2(Quantile(sorted, 1)),
                       p50 |-> Round2(Quantile(sorted, 2)),
                       p75 |-> Round2(Quantile(sorted, 3))]]]

Section_NoPlaceholder(blocks, none) == [text |-> "", blocks |-> blocks]

\* A section of the prompt: its blocks, or the fixed text that stands for none
Section(blocks, none) == [text |-> IF blocks = <<>> THEN none ELSE "", blocks |-> blocks]

\* The blocks a level adds to a section: none unless `if campaigns:` (lines
\* 50, 62, 73, 88-95, 101-107, 116-120)
IfAny(recs, blocks) == IF TruthyVal(recs) THEN blocks ELSE <<>>

\* csv_view (lines 48-84)
CsvView(a) ==
    Section(IfAny(a.campaigns, <<CsvBlock("campaign", a.campaigns.items)>>)
            \o IfAny(a.adsets, <<CsvBlock("adset", a.adsets.items)>>)
            \o IfAny(a.ads, <<CsvBlock("ad", a.ads.items)>>),
            "(sem dados)")

\* availability (lines 87-97)
Availability(a) ==
    Section(IfAny(a.campaigns, <<SummaryLine("campaign", a.campaigns.items)>>)
            \o IfAny(a.adsets, <<SummaryLine("adset", a.adsets.items)>>)
            \o IfAny(a.ads, <<SummaryLine("ad", a.ads.items)>>),
            "Nenhum dado disponível no período.")

\* highlights (lines 100-112)
Highlights(a) ==
    Section(IfAny(a.campaigns,
                  <<TopBlock("[Top Campanhas por ROAS]", "campaign", a.campaigns.items, "roas",
                             <<"campaign_name", "campaign_id", "roas", "purchase_value",
                               "purchases", "ctr", "cpc", "spend">>)>>)
            \o IfAny(a.adsets,
                  <<TopBlock("[Top Conjuntos por ROAS]", "adset", a.adsets.items, "roas",
                             <<"adset_name", "adset_id", "campaign_id", "roas",
                               "purchase_value", "purchases", "ctr", "cpc", "spend">>)>>)
            \o IfAny(a.ads,
                  <<TopBlock("[Top Anúncios por ROAS]", "ad", a.ads.items, "roas",
                             <<"ad_name", "ad_id", "adset_id", "campaign_id", "roas",
                               "purchase_value", "purchases", "ctr", "cpc", "spend">>),
                    TopBlock("[Top Anúncios por Compras]", "ad", a.ads.items, "purchases",
                             <<"ad_name", "ad_id", "purchases", "purchase_value", "roas",
                               "ctr", "cpc", "spend">>),
                    TopBlock("[Top Anúncios por CTR]", "ad", a.ads.items, "ctr",
                             <<"ad_name", "ad_id", "ctr", "roas", "purchases", "spend">>)>>),
            "(sem destaques)")

\* stats_text (lines 115-122)
StatsText(a) ==
    Section(IfAny(a.campaigns, <<StatsBlock("campaign", a.campaigns.items)>>)
            \o IfAny(a.adsets, <<StatsBlock("adset", a.adsets.items)>>)
            \o IfAny(a.ads, <<StatsBlock("ad", a.ads.items)>>),
            "(sem estatísticas)")

\* The intent tags of the four style groups (lines 145, 149, 153, 157)
creative_tags ==
    <<<<"a", "n", "a", "l", "i", "s", "e", "_", "c", "r", "i", "a", "t", "i", "v", "o", "s">>,
      <<"c", "r", "e", "a", "t", "i", "v", "e", "_", "s", "t", "r", "a", "t", "e", "g", "y">>,
      <<"c", "r", "i", "a", "t", "i", "v", "o", "s">>>>

budget_tags ==
    <<<<"a", "l", "o", "c", "a", "c", "a", "o", "_", "o", "r", "c", "a", "m", "e", "n", "t", "o">>,
      <<"b", "u", "d", "g", "e", "t", "_", "p", "l", "a", "n">>,
      <<"e", "s", "c", "a", "l", "a">>,
      <<"g", "r", "o", "w", "t", "h">>>>

diagnostic_tags ==
    <<<<"d", "i", "a", "g", "n", "o", "s", "t", "i", "c", "o">>,
      <<"t", "r", "o", "u", "b", "l", "e", "s", "h", "o", "o", "t", "i", "n", "g">>,
      <<"q", "u", "e", "d", "a">>>>

go_to_market_tags_NoEstrutura ==
    <<<<"n", "o", "v", "o", "_", "p", "r", "o", "d", "u", "t", "o">>,
      <<"g", "o", "_", "t", "o", "_", "m", "a", "r", "k", "e", "t">>,
      <<"f", "u", "n", "n", "e", "l">>,
      <<"f", "u", "n", "i", "l">>>>

go_to_market_tags ==
    <<<<"n", "o", "v", "o", "_", "p", "r", "o", "d", "u", "t", "o">>,
      <<"g", "o", "_", "t", "o", "_", "m", "a", "r", "k", "e", "t">>,
      <<"e", "s", "t", "r", "u", "t", "u", "r", "a">>,
      <<"f", "u", "n", "n", "e", "l">>,
      <<"f", "u", "n", "i", "l">>>>

\* any(i in intents for i in tags), intents being a list of strings
AnyTag(tags, intents) ==
    \E j \in 1..Len(tags) : \E i \in 1..Len(intents) : intents[i] = tags[j]

StartOfList_Kept(left) == left

\* style_guidance: List[str] = [] (line 143): the list starts empty whatever
\* an earlier call has left
StartOfList(left) == <<>>

\* style_guidance (lines 143-162); `left` is the list the call before built
StyleGuidance(intents_arg, left) ==
    LET intents == IF TruthyVal(intents_arg) THEN intents_arg.items ELSE <<>>
        chosen ==
            StartOfList(left)
            \o (IF AnyTag(creative_tags, intents)
                THEN <<"Modo: Relatório de criativos">> ELSE <<>>)
            \o (IF AnyTag(budget_tags, intents)
                THEN <<"Modo: Plano de orçamento">> ELSE <<>>)
            \o (IF AnyTag(diagnostic_tags, intents)
                THEN <<"Modo: Diagnóstico">> ELSE <<>>)
            \o (IF AnyTag(go_to_market_tags, intents)
                THEN <<"Modo: Go-to-market">> ELSE <<>>)
    IN  IF chosen = <<>> THEN <<"Modo: Responda de forma específica">> ELSE chosen

\* user_section, period_section (lines 173-174): the value under its fixed
\* heading, or nothing
Optional(v) == [present |-> TruthyVal(v), value |-> IF TruthyVal(v) THEN v ELSE Null]

\* pd.DataFrame(records) (lines 51, 63, 74) copies the records into a frame:
\* the sort and the added columns stay in the frame, the caller's list is as
\* it was
ListAfterFrame_SortedInPlace(v) ==
    IF v.t = "list" THEN List(SortDesc(v.items, "roas")) ELSE v

ListAfterFrame(v) == v

\* The arguments as the call leaves them
ArgsAfterBuild(a) ==
    [a EXCEPT !.campaigns = ListAfterFrame(a.campaigns),
              !.adsets = ListAfterFrame(a.adsets),
              !.ads = ListAfterFrame(a.ads)]

\* _build_prompt as called after a call that left `left` behind (lines 36-186)
BuildPromptAfter(a, left) ==
    [built |-> TRUE,
     style |-> StyleGuidance(a.intents, left),
     period_section |-> Optional(a.period_label),
     user_section |-> Optional(a.user_query),
     availability |-> Availability(a),
     stats_text |-> StatsText(a),
     highlights |-> Highlights(a),
     csv_view |-> CsvView(a)]

\* _build_prompt(campaigns, adsets, ads, user_query, period_label, intents)
\* (lines 36-186): the text as its variable sections; the fixed paragraphs
\* (grounding rules, output format, instructions) are the same in every prompt
_build_prompt(a) == BuildPromptAfter(a, <<>>)

NoPrompt ==
    [built |-> FALSE,
     style |-> <<>>,
     period_section |-> Optional(Null),
     user_section |-> Optional(Null),
     availability |-> Section(<<>>, ""),
     stats_text |-> Section(<<>>, ""),
     highlights |-> Section(<<>>, ""),
     csv_view |-> Section(<<>>, "")]

NoArgs == [campaigns |-> Null, adsets |-> Null, ads |-> Null, user_query |-> Null,
           period_label |-> Null, intents |-> Null]

S_4 == <<"4">>

IdOf(j) == <<DigitChars[j + 1]>>

\* Rows the records of a prompt are normalized from: distinct identification,
\* spend and purchase value; the second spends nothing, the third and fourth
\* spend -4 and 4.
SampleRow(j) ==
    LET row == [BaseRow EXCEPT !.campaign_id = Str(<<"c">> \o IdOf(j)),
                               !.adset_id = Str(<<"s">> \o IdOf(j)),
                               !.ad_id = Str(<<"a">> \o IdOf(j))]
    IN  CASE j = 1 -> row
          [] j = 2 -> [row EXCEPT !.spend = Str(S_0), !.action_values = List(<<>>),
                                  !.actions = List(<<>>)]
          [] j = 3 -> [row EXCEPT !.spend = Str(S_neg_4), !.clicks = Str(S_0)]
          [] j = 4 -> [row EXCEPT !.spend = Str(S_4),
                                  !.action_values =
                                      List(<<Entry(Str(T_omni_purchase), Str(S_5))>>)]
          [] j = 5 -> [row EXCEPT !.spend = Str(S_2_5), !.impressions = Str(S_4000000),
                                  !.actions =
                                      List(<<Entry(Str(T_omni_purchase), Str(S_5))>>)]
          [] OTHER -> [row EXCEPT !.spend = Str(S_7_9), !.clicks = Str(S_5)]

\* The records of a level normalized from the rows numbered by `js`
SampleRecords(lv, js) == List([i \in 1..Len(js) |-> NormalizeRow(lv, SampleRow(js[i]))])

\* One call of _build_prompt on the arguments (lines 36-186)
PromptBuild ==
    /\ Len(b_outs) < MaxBuilds
    /\ b_outs' = Append(b_outs, BuildPromptAfter(b_args, b_left))
    /\ b_left' = BuildPromptAfter(b_args, b_left).style
    /\ b_args' = ArgsAfterBuild(b_args)
    /\ UNCHANGED b_args0

\* Intent tags given to the builder: the five the request handlers detect, one
\* more of a style group and one of no group
TagPool ==
    {<<"a", "n", "a", "l", "i", "s", "e", "_", "c", "r", "i", "a", "t", "i", "v", "o", "s">>,
     <<"a", "l", "o", "c", "a", "c", "a", "o", "_", "o", "r", "c", "a", "m", "e", "n", "t", "o">>,
     <<"d", "i", "a", "g", "n", "o", "s", "t", "i", "c", "o">>,
     <<"n", "o", "v", "o", "_", "p", "r", "o", "d", "u", "t", "o">>,
     <<"e", "s", "t", "r", "u", "t", "u", "r", "a">>,
     <<"g", "r", "o", "w", "t", "h">>,
     <<"o", "u", "t", "r", "o">>}

TagLists == UNION {[1..n -> TagPool] : n \in 0..MaxTags}

\* The record collections of a call: absent, empty, one record, records whose
\* spend is zero or sums to zero, records out of order, more than TopCount
DataPool ==
    {[NoArgs EXCEPT !.campaigns = c, !.adsets = s, !.ads = a] :
        c \in {Null, List(<<>>), SampleRecords("campaign", <<1>>),
               SampleRecords("campaign", <<2>>), SampleRecords("campaign", <<3, 4>>),
               SampleRecords("campaign", <<2, 1, 4>>)},
        s \in {Null, List(<<>>), SampleRecords("adset", <<5, 1, 6, 4>>)},
        a \in {Null, List(<<>>), SampleRecords("ad", <<1, 2, 3, 4, 5, 6>>)}}

PromptArgs ==
    {[d EXCEPT !.user_query = q, !.period_label = l, !.intents = i] :
        d \in DataPool, q \in {Null, Str(<<"q">>)}, l \in {Null, Str(<<>>), Str(<<"7", "d">>)},
        i \in {Null, List(<<<<"e", "s", "t", "r", "u", "t", "u", "r", "a">>>>)}}
    \cup
    {[d EXCEPT !.intents = List(i)] :
        d \in {NoArgs, [NoArgs EXCEPT !.ads = SampleRecords("ad", <<4, 1>>)]},
        i \in TagLists}

PromptInit ==
    /\ b_args \in PromptArgs
    /\ b_args0 = b_args
    /\ b_left = <<>>
    /\ b_outs = <<>>

PromptIdle ==
    /\ b_args = NoArgs
    /\ b_args0 = NoArgs
    /\ b_left = <<>>
    /\ b_outs = <<>>

----------------------------------------------------------------------------
(* ai_client.py: analyze_campaigns_with_gpt *)

\* history[-8:] keeps this many turns (line 226)
KeepTurns == 8

\* if not api_key (line 207): the key is absent (None) or empty
KeyMissing_NoneOnly(key) == key = None

KeyMissing(key) == ~Truthy(key)

NoClient == [constructed |-> FALSE, api_key |-> None]

\* OpenAI(api_key=api_key) (line 210)
OpenAI(key) == [constructed |-> TRUE, api_key |-> key]

S_system == Str(<<"s", "y", "s", "t", "e", "m">>)

S_user == Str(<<"u", "s", "e", "r">>)

S_assistant == Str(<<"a", "s", "s", "i", "s", "t", "a", "n", "t">>)

S_tool == Str(<<"t", "o", "o", "l">>)

\* The fixed system instruction (lines 216-220)
SystemMessage == [role |-> S_system, content |-> Str(<<"instrucao">>), prompt |-> NoPrompt]

\* A prior turn: a mapping whose role and content members may be missing
Turn(role, content) == [role |-> role, content |-> content]

Trimmed_First(turns) ==
    IF Len(turns) <= KeepTurns THEN turns ELSE SubSeq(turns, 1, KeepTurns)

\* history[-8:] (line 226)
Trimmed(turns) ==
    IF Len(turns) <= KeepTurns THEN turns
    ELSE SubSeq(turns, Len(turns) - KeepTurns + 1, Len(turns))

\* One turn as it is appended (lines 228-232)
CoerceTurn(m) ==
    LET r == Get(m.role, S_user)
    IN  [role |-> IF r \in {S_user, S_assistant} THEN r ELSE S_user,
         content |-> Get(m.content, Str(<<>>)),
         prompt |-> NoPrompt]

\* The message list sent to the provider (lines 215-232)
Messages(hist, p) ==
    <<SystemMessage>>
    \o (IF TruthyVal(hist)
        THEN [i \in 1..Len(Trimmed(hist.items)) |-> CoerceTurn(Trimmed(hist.items)[i])]
        ELSE <<>>)
    \o <<[role |-> S_user, content |-> Str(<<"prompt">>), prompt |-> p]>>

\* What the provider does with a chat-completion request: a text, a reply
\* without text, or an API failure.
ChatOutcomes == {"text", "no_text", "api_error"}

\* if not api_key: raise RuntimeError (lines 207-208)
LlmCheckKey ==
    /\ l_pc = "call"
    /\ IF KeyMissing(api_key)
       THEN /\ l_pc' = "raised"
            /\ l_error' = [type |-> "RuntimeError", message |-> "OPENAI_API_KEY não encontrado nas variáveis de ambiente."]
       ELSE /\ l_pc' = "client"
            /\ UNCHANGED l_error
    /\ UNCHANGED <<api_key, l_args, history, client, prompt, messages, chat_calls, l_result>>

\* client = OpenAI(api_key=api_key) (line 210)
LlmClient ==
    /\ l_pc = "client"
    /\ client' = OpenAI(api_key)
    /\ l_pc' = "prompt"
    /\ UNCHANGED <<api_key, l_args, history, prompt, messages, chat_calls, l_result, l_error>>

\* prompt = _build_prompt(...) (line 212)
LlmPrompt ==
    /\ l_pc = "prompt"
    /\ prompt' = _build_prompt(l_args)
    /\ l_pc' = "messages"
    /\ UNCHANGED <<api_key, l_args, history, client, messages, chat_calls, l_result, l_error>>

\* messages = [system] + trimmed history + [user prompt] (lines 215-232)
LlmMessages ==
    /\ l_pc = "messages"
    /\ messages' = Messages(history, prompt)
    /\ l_pc' = "chat"
    /\ UNCHANGED <<api_key, l_args, history, client, prompt, chat_calls, l_result, l_error>>

\* client.chat.completions.create(...) and the return (lines 234-243)
LlmChat ==
    /\ l_pc = "chat"
    /\ chat_calls' = Append(chat_calls, [model |-> "gpt-4o-mini", api_key |-> client.api_key,
                                         messages |-> messages])
    /\ \E outcome \in ChatOutcomes :
         CASE outcome = "text" ->
                /\ l_pc' = "returned"
                /\ l_result' = "analysis"
                /\ UNCHANGED l_error
           [] outcome = "no_text" ->
                /\ l_pc' = "raised"
                /\ l_error' = [type |-> "AttributeError", message |-> "NoneType has no strip"]
                /\ UNCHANGED l_result
           [] outcome = "api_error" ->
                /\ l_pc' = "raised"
                /\ l_error' = [type |-> "APIError", message |-> "provider failure"]
                /\ UNCHANGED l_result
    /\ UNCHANGED <<api_key, l_args, history, client, prompt, messages>>

\* The prior turns of the model's calls: n turns whose roles and contents
\* cycle through the shapes a caller may send.
TurnRoles == <<S_user, S_assistant, S_tool, Missing, S_system>>

TurnContents == <<Str(<<"a">>), Str(<<"b">>), Missing, Str(<<>>)>>

HistoryOf(n, off) ==
    List([i \in 1..n |-> Turn(TurnRoles[((i + off) % 5) + 1],
                              TurnContents[((i + off) % 4) + 1])])

Histories == {Null} \cup {HistoryOf(n, off) : n \in 0..MaxTurns, off \in 0..1}

ApiKeys == {None, "", "sk-test"}

LlmArgs ==
    {[NoArgs EXCEPT !.campaigns = c, !.user_query = q] :
        c \in {Null, SampleRecords("campaign", <<1>>)}, q \in {Null, Str(<<"q">>)}}

LlmInit ==
    /\ l_pc = "call"
    /\ api_key \in ApiKeys
    /\ l_args \in LlmArgs
    /\ history \in Histories
    /\ client = NoClient
    /\ prompt = NoPrompt
    /\ messages = <<>>
    /\ chat_calls = <<>>
    /\ l_result = NoResult
    /\ l_error = NoError

LlmIdle ==
    /\ l_pc = "idle"
    /\ api_key = None
    /\ l_args = NoArgs
    /\ history = Null
    /\ client = NoClient
    /\ prompt = NoPrompt
    /\ messages = <<>>
    /\ chat_calls = <<>>
    /\ l_result = NoResult
    /\ l_error = NoError

----------------------------------------------------------------------------
(* main.py: the response sanitizer *)

\* Characters written by name: U+2022 (a bullet), U+200B (category Cf) and
\* U+00A0 (category Zs, whose NFKC form is a space)
C_bullet == "U+2022"

C_zwsp == "U+200B"

C_nbsp == "U+00A0"

\* \s of the regular expressions and the characters str.strip() removes
IsSpace(c) == c \in {" ", "\t", "\n", "\r", C_nbsp}

AccentChars == {"ê", "ç", "õ", "ó"}

\* \w of the regular expressions
IsWordChar(c) ==
    \/ IsDigit(c)
    \/ c = "_"
    \/ c \in AccentChars
    \/ \E i \in 1..26 : UpperChars[i] = c \/ LowerChars[i] = c

\* unicodedata.category(ch).startswith("C") (line 95)
IsControl(c) == c \in {"\r", "\t", "\n", C_zwsp}

\* unicodedata.normalize("NFKC", ch) (line 100)
NFKC(c) == IF c = C_nbsp THEN " " ELSE c

StartsWith(s, p) == Len(s) >= Len(p) /\ SubSeq(s, 1, Len(p)) = p

Drop(s, n) == SubSeq(s, n + 1, Len(s))

RECURSIVE ReplaceAll(_, _, _)
\* str.replace(old, new)
ReplaceAll(s, old, new) ==
    IF s = <<>> THEN <<>>
    ELSE IF StartsWith(s, old) THEN new \o ReplaceAll(Drop(s, Len(old)), old, new)
    ELSE <<s[1]>> \o ReplaceAll(Tail(s), old, new)

RECURSIVE RunOf(_, _)
\* The length of the longest prefix of s made of characters of `set`
RunOf(s, set) == IF s # <<>> /\ s[1] \in set THEN 1 + RunOf(Tail(s), set) ELSE 0

RECURSIVE SpaceRun(_)
\* The length of the whitespace s starts with
SpaceRun(s) == IF s # <<>> /\ IsSpace(s[1]) THEN 1 + SpaceRun(Tail(s)) ELSE 0

LStrip(s) == Drop(s, SpaceRun(s))

RECURSIVE RStrip(_)
RStrip(s) ==
    IF s # <<>> /\ IsSpace(s[Len(s)]) THEN RStrip(SubSeq(s, 1, Len(s) - 1)) ELSE s

\* str.strip()
Strip(s) == RStrip(LStrip(s))

\* The filter of lines 91-101: whitespace is kept, a control or invisible
\* character is dropped, any other character is put in NFKC form
Filtered(t) ==
    LET kept == SelectSeq(t, LAMBDA c : c \in {"\n", " ", "\t"} \/ ~IsControl(c))
    IN  [i \in 1..Len(kept) |->
           IF kept[i] \in {"\n", " ", "\t"} THEN kept[i] ELSE NFKC(kept[i])]

RECURSIVE SplitLines(_)
\* t.split("\n")
SplitLines(s) ==
    IF \E i \in 1..Len(s) : s[i] = "\n"
    THEN LET i == CHOOSE i \in 1..Len(s) : s[i] = "\n" /\ \A j \in 1..(i - 1) : s[j] # "\n"
         IN  <<SubSeq(s, 1, i - 1)>> \o SplitLines(Drop(s, i))
    ELSE <<s>>

RECURSIVE JoinLines(_)
\* "\n".join(cleaned)
JoinLines(lines) ==
    IF lines = <<>> THEN <<>>
    ELSE IF Len(lines) = 1 THEN lines[1]
    ELSE lines[1] \o <<"\n">> \o JoinLines(Tail(lines))

\* The words of the banned headers (lines 105-111): each pattern is the words
\* separated by whitespace, optional whitespace and a colon, with its variants
\* of accented letters
BannedHeaders ==
    {<<<<"r", "e", "s", "p", "o", "s", "t", "a">>, <<"d", "i", "r", "e", "t", "a">>>>,
     <<<<"e", "v", "i", "d", "e", "n", "c", "i", "a", "s">>>>,
     <<<<"e", "v", "i", "d", "ê", "n", "c", "i", "a", "s">>>>,
     <<<<"a", "c", "o", "e", "s">>, <<"r", "e", "c", "o", "m", "e", "n", "d", "a", "d", "a", "s">>>>,
     <<<<"a", "c", "õ", "e", "s">>, <<"r", "e", "c", "o", "m", "e", "n", "d", "a", "d", "a", "s">>>>,
     <<<<"a", "ç", "o", "e", "s">>, <<"r", "e", "c", "o", "m", "e", "n", "d", "a", "d", "a", "s">>>>,
     <<<<"a", "ç", "õ", "e", "s">>, <<"r", "e", "c", "o", "m", "e", "n", "d", "a", "d", "a", "s">>>>,
     <<<<"r", "i", "s", "c", "o", "s">>>>,
     <<<<"r", "i", "s", "c", "o", "s", "/", "o", "b", "s", "e", "r", "v", "a", "c", "o", "e", "s">>>>,
     <<<<"r", "i", "s", "c", "o", "s", "/", "o", "b", "s", "e", "r", "v", "a", "c", "õ", "e", "s">>>>,
     <<<<"r", "i", "s", "c", "o", "s", "/", "o", "b", "s", "e", "r", "v", "a", "ç", "o", "e", "s">>>>,
     <<<<"r", "i", "s", "c", "o", "s", "/", "o", "b", "s", "e", "r", "v", "a", "ç", "õ", "e", "s">>>>,
     <<<<"r", "i", "s", "c", "o", "s", "/", "ó", "b", "s", "e", "r", "v", "a", "c", "o", "e", "s">>>>,
     <<<<"r", "i", "s", "c", "o", "s", "/", "ó", "b", "s", "e", "r", "v", "a", "c", "õ", "e", "s">>>>,
     <<<<"r", "i", "s", "c", "o", "s", "/", "ó", "b", "s", "e", "r", "v", "a", "ç", "o", "e", "s">>>>,
     <<<<"r", "i", "s", "c", "o", "s", "/", "ó", "b", "s", "e", "r", "v", "a", "ç", "õ", "e", "s">>>>,
     <<<<"p", "r", "o", "x", "i", "m", "o", "s">>, <<"p", "a", "s", "s", "o", "s">>>>,
     <<<<"p", "r", "ó", "x", "i", "m", "o", "s">>, <<"p", "a", "s", "s", "o", "s">>>>}

RECURSIVE MatchWords(_, _)
MatchWords(s, words) ==
    /\ StartsWith(s, words[1])
    /\ LET rest == Drop(s, Len(words[1]))
       IN  IF Len(words) = 1
           THEN LStrip(rest) # <<>> /\ LStrip(rest)[1] = ":"
           ELSE SpaceRun(rest) >= 1 /\ MatchWords(LStrip(rest), Tail(words))

IsBanned_Bulleted(low) ==
    \E words \in BannedHeaders :
        \/ MatchWords(LStrip(low), words)
        \/ /\ low # <<>>
           /\ low[1] \in {"-", "*"}
           /\ MatchWords(LStrip(Tail(low)), words)

\* any(re.match(p, low) for p in banned) (line 116)
IsBanned(low) == \E words \in BannedHeaders : MatchWords(LStrip(low), words)

\* re.sub(r"^\s*[\-\*•]\s+", "", ln) (line 119)
StripBullet(ln) ==
    LET r == LStrip(ln)
    IN  IF r # <<>> /\ r[1] \in {"-", "*", C_bullet} /\ SpaceRun(Tail(r)) >= 1
        THEN LStrip(Tail(r))
        ELSE ln

\* re.sub(r"^\s*\d+[\.)\-]\s+", "", ln) (line 120)
StripNumber(ln) ==
    LET r == LStrip(ln)
        n == RunOf(r, {DigitChars[i] : i \in 1..10})
        rest == Drop(r, n)
    IN  IF n >= 1 /\ rest # <<>> /\ rest[1] \in {".", ")", "-"} /\ SpaceRun(Tail(rest)) >= 1
        THEN LStrip(Tail(rest))
        ELSE ln

\* ln = re.sub(...) twice, for each line (lines 119-120)
StripMarkers(lines) == [i \in 1..Len(lines) |-> StripNumber(StripBullet(lines[i]))]

\* The loop over the lines (lines 114-121): a banned header line is dropped,
\* one bullet and then one numbering are removed from the others
CleanedLines(lines) ==
    LET kept == SelectSeq(lines, LAMBDA ln : ~IsBanned(LowerStr(Strip(ln))))
    IN  StripMarkers(kept)

RECURSIVE CollapseBreaks(_)
\* re.sub(r"\n{3,}", "\n\n", t) (line 125)
CollapseBreaks(s) ==
    IF s = <<>> THEN <<>>
    ELSE IF RunOf(s, {"\n"}) >= 3
    THEN <<"\n", "\n">> \o CollapseBreaks(Drop(s, RunOf(s, {"\n"})))
    ELSE <<s[1]>> \o CollapseBreaks(Tail(s))

\* PARA (line 128)
PARA == <<"<", "<", "P", "A", "R", "A", ">", ">">>

\* re.sub(r"(?<=\w)\n(?=\w)", "", t) (line 131)
JoinWordBreaks(t) ==
    LET Joined(i) == /\ t[i] = "\n"
                     /\ i > 1 /\ i < Len(t)
                     /\ IsWordChar(t[i - 1]) /\ IsWordChar(t[i + 1])
        kept == SelectSeq([i \in 1..Len(t) |-> i], LAMBDA i : ~Joined(i))
    IN  [k \in 1..Len(kept) |-> t[kept[k]]]

RECURSIVE RemoveBackslashes(_)
\* re.sub(r"\s*\\\s*", "", t) (line 133)
RemoveBackslashes(s) ==
    IF s = <<>> THEN <<>>
    ELSE LET n == SpaceRun(s)
         IN  IF n < Len(s) /\ s[n + 1] = "\\"
             THEN RemoveBackslashes(LStrip(Drop(s, n + 1)))
             ELSE <<s[1]>> \o RemoveBackslashes(Tail(s))

RECURSIVE SqueezeBlanks(_)
\* re.sub(r"[ \t]{2,}", " ", t) (line 140)
SqueezeBlanks(s) ==
    IF s = <<>> THEN <<>>
    ELSE IF RunOf(s, {" ", "\t"}) >= 2
    THEN <<" ">> \o SqueezeBlanks(Drop(s, RunOf(s, {" ", "\t"})))
    ELSE <<s[1]>> \o SqueezeBlanks(Tail(s))

RECURSIVE DropSpaceBefore(_, _)
\* re.sub(r"\s+([,.;:!?])", r"\1", t) and re.sub(r"\s+\)", ")", t) (lines 141, 143)
DropSpaceBefore(s, marks) ==
    IF s = <<>> THEN <<>>
    ELSE LET n == SpaceRun(s)
         IN  IF n >= 1 /\ n < Len(s) /\ s[n + 1] \in marks
             THEN <<s[n + 1]>> \o DropSpaceBefore(Drop(s, n + 1), marks)
             ELSE <<s[1]>> \o DropSpaceBefore(Tail(s), marks)

RECURSIVE DropSpaceAfterParen(_)
\* re.sub(r"\(\s+", "(", t) (line 142)
DropSpaceAfterParen(s) ==
    IF s = <<>> THEN <<>>
    ELSE IF s[1] = "(" /\ SpaceRun(Tail(s)) >= 1
    THEN <<"(">> \o DropSpaceAfterParen(LStrip(Tail(s)))
    ELSE <<s[1]>> \o DropSpaceAfterParen(Tail(s))

RECURSIVE CurrencySpace(_)
\* re.sub(r"R\$\s+", "R$ ", t) (line 146)
CurrencySpace(s) ==
    IF s = <<>> THEN <<>>
    ELSE IF StartsWith(s, <<"R", "$">>) /\ SpaceRun(Drop(s, 2)) >= 1
    THEN <<"R", "$", " ">> \o CurrencySpace(LStrip(Drop(s, 2)))
    ELSE <<s[1]>> \o CurrencySpace(Tail(s))

RECURSIVE DecimalComma(_)
\* re.sub(r"(\d)\s*,\s*(\d{1,2})", r"\1,\2", t) (line 147)
DecimalComma(s) ==
    IF s = <<>> THEN <<>>
    ELSE LET a == LStrip(Tail(s))
             b == IF a = <<>> THEN <<>> ELSE LStrip(Tail(a))
             n == IF Len(b) >= 2 /\ IsDigit(b[2]) THEN 2 ELSE 1
         IN  IF IsDigit(s[1]) /\ a # <<>> /\ a[1] = "," /\ b # <<>> /\ IsDigit(b[1])
             THEN <<s[1], ",">> \o SubSeq(b, 1, n) \o DecimalComma(Drop(b, n))
             ELSE <<s[1]>> \o DecimalComma(Tail(s))

\* The steps after the loop over the lines (lines 122-149)
LaterSteps(t3) ==
    LET t4 == ReplaceAll(Strip(CollapseBreaks(t3)), <<"\t">>, <<" ">>)
        t5 == ReplaceAll(t4, <<"\n", "\n">>, PARA)
        t6 == RemoveBackslashes(JoinWordBreaks(t5))
        t7 == ReplaceAll(ReplaceAll(t6, <<"\n">>, <<" ">>), PARA, <<"\n", "\n">>)
        t8 == DropSpaceBefore(SqueezeBlanks(t7), {",", ".", ";", ":", "!", "?"})
        t9 == DropSpaceBefore(DropSpaceAfterParen(t8), {")"})
        t10 == CurrencySpace(ReplaceAll(t9, <<"R", " ", "$">>, <<"R", "$">>))
    IN  Strip(DecimalComma(t10))

\* _sanitize_analysis(text) (lines 75-149)
_sanitize_analysis(text) ==
    IF text = <<>> THEN text
    ELSE
    LET t1 == ReplaceAll(ReplaceAll(text, <<"\r", "\n">>, <<"\n">>), <<"\r">>, <<"\n">>)
        t2 == Filtered(t1)
    IN  LaterSteps(JoinLines(CleanedLines(SplitLines(t2))))

\* Texts the sanitizer is applied to: a start, a middle and an end, among
\* them nested list markers, bulleted header lines, backslashes between
\* paragraph breaks and the paragraph marker itself
SanHeads ==
    {<<>>,
     <<"-", " ">>,
     <<"1", ".", " ">>,
     <<"a", "\n", "\n">>,
     <<" ", "*", " ">>,
     <<"i", "t", "e", "m", "\n">>,
     <<C_bullet, " ">>}

SanMiddles ==
    {<<>>,
     <<"-", " ">>,
     <<"\\">>,
     <<"R", "e", "s", "p", "o", "s", "t", "a", " ", "d", "i", "r", "e", "t", "a", ":">>,
     <<"<", "<", "P", "A", "R", "A", ">", ">">>,
     <<"R", " ", "$", " ", " ", "5">>,
     <<"1", " ", ",", " ", "2", "5">>,
     <<"(", " ", "a", " ", ")">>,
     <<C_zwsp, "\r", "\n">>,
     <<"\n", "\n", "\n">>,
     <<" ", "\t", " ">>,
     <<"2", ")", " ">>,
     <<"R", "i", "s", "c", "o", "s", " ", ":">>,
     <<"E", "v", "i", "d", "ê", "n", "c", "i", "a", "s", ":", " ", "x">>,
     <<"a", "c", "o", "e", "s", " ", " ", "r", "e", "c", "o", "m", "e", "n", "d", "a", "d", "a", "s", " ", ":">>,
     <<"r", "i", "s", "c", "o", "s", "/", "o", "b", "s", "e", "r", "v", "a", "ç", "õ", "e", "s", ":">>,
     <<"P", "r", "ó", "x", "i", "m", "o", "s", " ", "p", "a", "s", "s", "o", "s">>,
     <<C_nbsp>>}

SanTails ==
    {<<>>,
     <<"i", "t", "e", "m">>,
     <<" ", "X">>,
     <<"\n", "\n", "b">>,
     <<" ", ",", "b">>,
     <<"\n", "-", " ", "b">>,
     <<"\\", "\n", "\n", "c">>}

SanTexts == {h \o m \o t : h \in SanHeads, m \in SanMiddles, t \in SanTails}

\* One more application of the sanitizer, to the text or to its latest result
SanApply ==
    /\ Len(s_outs) < MaxApplications
    /\ s_outs' = Append(s_outs, _sanitize_analysis(IF s_outs = <<>> THEN s_text
                                                   ELSE s_outs[Len(s_outs)]))
    /\ UNCHANGED s_text

SanInit ==
    /\ s_text \in SanTexts
    /\ s_outs = <<>>

SanIdle ==
    /\ s_text = <<>>
    /\ s_outs = <<>>

----------------------------------------------------------------------------
(* frontend/app.py: the chat *)

\* The chat submissions of a session
MaxSubmissions == 2

\* The POSTs of a session, the button's included
MaxPosts == 3

\* messages[-6:] of the button's payload (line 162)
LastSix == 6

\* What the user types into st.chat_input (never empty: line 220)
ChatInputs == {"queda de CTR?", "ads"}

\* The sidebar's focus choice (lines 106-111)
FocusChoices == {"auto", "criativos"}

\* data.get("analysis", "") of a 200 response (line 254)
Analyses == {"", "O CTR caiu."}

\* str(e) of an exception of requests.post, raise_for_status, resp.json or
\* pd.DataFrame (lines 250-261)
ChatErrors == {"timeout", "500 Server Error"}

NoReply == [ok |-> FALSE, text |-> ""]

\* {"role": ..., "content": ...}
Message(role, prefix, text) == [role |-> role, prefix |-> prefix, text |-> text]

\* messages[-n:]
LastN(msgs, n) ==
    IF Len(msgs) <= n THEN msgs ELSE SubSeq(msgs, Len(msgs) - n + 1, Len(msgs))

\* payload of the chat handler (lines 226-247): user_message is the style
\* guide, the focus when one is chosen, and the question
ChatPayload(focus, input, msgs) ==
    [via |-> "chat", guide |-> TRUE, focus |-> focus, question |-> input,
     has_messages |-> TRUE, messages |-> msgs]

\* payload of the "Analisar com IA" button (lines 147-162)
ButtonPayload(focus, msgs) ==
    [via |-> "button", guide |-> TRUE, focus |-> focus, question |-> "",
     has_messages |-> msgs # <<>>, messages |-> LastN(msgs, LastSix)]

AfterError_Dropped(msgs, e) == msgs

\* except Exception as e: the error text is appended (lines 267-269)
AfterError(msgs, e) ==
    Append(msgs, Message("assistant", "Erro ao conversar com a IA: ", e))

\* the analysis is appended (line 264)
AfterReply(msgs, assistant_text) ==
    Append(msgs, Message("assistant", "", assistant_text))

\* if user_input := st.chat_input(...): the user message is appended (lines 220-223)
ChatSubmit ==
    /\ c_pc = "rest"
    /\ Len(chat_messages) < 2 * MaxSubmissions
    /\ Len(posted) < MaxPosts
    /\ \E input \in ChatInputs :
        /\ user_input' = input
        /\ chat_messages' = Append(chat_messages, Message("user", "", input))
    /\ c_pc' = "try"
    /\ UNCHANGED <<analysis_text, c_reply, posted>>

\* the payload is built and posted; the response is read (lines 225-261)
ChatPost ==
    /\ c_pc = "try"
    /\ \E focus \in FocusChoices :
        posted' = Append(posted, ChatPayload(focus, user_input, chat_messages))
    /\ \/ \E a \in Analyses : c_reply' = [ok |-> TRUE, text |-> a] /\ c_pc' = "reply"
       \/ \E e \in ChatErrors : c_reply' = [ok |-> FALSE, text |-> e] /\ c_pc' = "except"
    /\ UNCHANGED <<chat_messages, analysis_text, user_input>>

\* lines 263-266
ChatReply ==
    /\ c_pc = "reply"
    /\ analysis_text' = c_reply.text
    /\ chat_messages' = AfterReply(chat_messages, c_reply.text)
    /\ c_pc' = "rest"
    /\ c_reply' = NoReply
    /\ UNCHANGED <<user_input, posted>>

\* lines 267-271
ChatExcept ==
    /\ c_pc = "except"
    /\ chat_messages' = AfterError(chat_messages, c_reply.text)
    /\ c_pc' = "rest"
    /\ c_reply' = NoReply
    /\ UNCHANGED <<analysis_text, user_input, posted>>

\* if st.button("Analisar com IA") (lines 142-175): the last six messages go
\* with the payload; the stored list is only read
ChatAnalyzeButton ==
    /\ c_pc = "rest"
    /\ Len(posted) < MaxPosts
    /\ \E focus \in FocusChoices :
        posted' = Append(posted, ButtonPayload(focus, chat_messages))
    /\ \/ \E a \in Analyses : analysis_text' = a
       \/ UNCHANGED analysis_text
    /\ UNCHANGED <<c_pc, chat_messages, user_input, c_reply>>

\* a new session (lines 61-64)
ChatInit ==
    /\ c_pc = "rest"
    /\ chat_messages = <<>>
    /\ analysis_text = ""
    /\ user_input = ""
    /\ c_reply = NoReply
    /\ posted = <<>>

ChatIdle == ChatInit

----------------------------------------------------------------------------
(* main.py: the analysis request handlers *)

\* keywords of a question about ads / creatives (lines 197, 271)
ads_keywords ==
    <<<<"c", "r", "i", "a", "t", "i", "v", "o">>,
      <<"c", "r", "i", "a", "t", "i", "v", "o", "s">>,
      <<"a", "n", "u", "n", "c", "i", "o">>,
      <<"a", "n", "ú", "n", "c", "i", "o">>,
      <<"a", "d", "s">>>>

\* keywords of a question about ad sets (lines 198, 272)
adset_keywords ==
    <<<<"c", "o", "n", "j", "u", "n", "t", "o">>,
      <<"c", "o", "n", "j", "u", "n", "t", "o", "s">>,
      <<"a", "d", "s", "e", "t">>>>

\* The intent table (lines 226-235, 317-326): a name and its keywords, in order
IntentTable ==
    <<[name |-> <<"a", "n", "a", "l", "i", "s", "e", "_", "c", "r", "i", "a", "t", "i", "v", "o", "s">>, keys |-> ads_keywords],
      [name |-> <<"a", "l", "o", "c", "a", "c", "a", "o", "_", "o", "r", "c", "a", "m", "e", "n", "t", "o">>, keys |->
         <<<<"o", "r", "ç", "a", "m", "e", "n", "t", "o">>,
          <<"b", "u", "d", "g", "e", "t">>,
          <<"g", "a", "s", "t", "a", "r">>,
          <<"i", "n", "v", "e", "s", "t", "i", "r">>,
          <<"e", "s", "c", "a", "l", "a">>>>],
      [name |-> <<"d", "i", "a", "g", "n", "o", "s", "t", "i", "c", "o">>, keys |->
         <<<<"p", "r", "o", "b", "l", "e", "m", "a">>,
          <<"c", "a", "i", "r", "a", "m">>,
          <<"q", "u", "e", "d", "a">>,
          <<"q", "u", "e", "d", "a", " ", "d", "e", " ", "d", "e", "s", "e", "m", "p", "e", "n", "h", "o">>,
          <<"t", "r", "o", "u", "b", "l", "e", "s", "h", "o", "o", "t", "i", "n", "g">>>>],
      [name |-> <<"n", "o", "v", "o", "_", "p", "r", "o", "d", "u", "t", "o">>, keys |->
         <<<<"n", "o", "v", "o", " ", "p", "r", "o", "d", "u", "t", "o">>,
          <<"n", "o", "v", "o", "s", " ", "p", "r", "o", "d", "u", "t", "o", "s">>,
          <<"l", "a", "n", "ç", "a", "r">>,
          <<"l", "a", "n", "ç", "a", "m", "e", "n", "t", "o">>,
          <<"g", "o", " ", "t", "o", " ", "m", "a", "r", "k", "e", "t">>>>],
      [name |-> <<"e", "s", "t", "r", "u", "t", "u", "r", "a">>, keys |->
         <<<<"e", "s", "t", "r", "u", "t", "u", "r", "a">>,
          <<"f", "u", "n", "n", "e", "l">>,
          <<"f", "u", "n", "i", "l">>,
          <<"c", "a", "m", "p", "a", "n", "h", "a", "s">>,
          <<"c", "o", "n", "j", "u", "n", "t", "o", "s">>>>]>>

S_last_7d == Str(<<"l", "a", "s", "t", "_", "7", "d">>)

S_date_a == Str(<<"2", "0", "2", "4", "-", "0", "1", "-", "0", "1">>)

S_date_b == Str(<<"2", "0", "2", "4", "-", "0", "1", "-", "3", "1">>)

InfixAte == <<" ", "a", "t", "é", " ">>

InfixIntent == <<"\n", "\n", "I", "n", "t", "e", "n", "ç", "ã", "o", " ", "d", "e", "t", "e", "c", "t", "a", "d", "a", ":", " ">>

CommaSpace == <<",", " ">>

M_oi == Str(<<"o", "i">>)

M_Adset == Str(<<"M", "e", "u", " ", "A", "d", "s", "e", "t">>)

M_ADS == Str(<<"A", "D", "S">>)

M_conjuntos == Str(<<"c", "o", "n", "j", "u", "n", "t", "o", "s">>)

M_budget == Str(<<"b", "u", "d", "g", "e", "t">>)

\* The user messages of the model's requests
UserMessages == {Null, Str(<<>>), M_oi, M_Adset, M_ADS, M_conjuntos, M_budget}


\* k in text, on strings
Contains(text, k) ==
    \E i \in 1..(Len(text) - Len(k) + 1) : SubSeq(text, i, i + Len(k) - 1) = k

\* any(k in text for k in keys)
AnyIn(keys, text) == \E j \in 1..Len(keys) : Contains(text, keys[j])

Range(seq) == {seq[i] : i \in 1..Len(seq)}

\* (user_message or "").lower() (lines 196, 269)
TextOf(user_message) ==
    IF TruthyVal(user_message) THEN LowerStr(user_message.s) ELSE <<>>

\* wants_ads, wants_adsets of the GET handler (lines 197-198)
wants_ads(user_message) ==
    TruthyVal(user_message) /\ AnyIn(ads_keywords, TextOf(user_message))

wants_adsets(user_message) ==
    TruthyVal(user_message) /\ AnyIn(adset_keywords, TextOf(user_message))

AllLevels == <<"campaign", "adset", "ad">>

PostLevels_AsNamed(b) ==
    IF b.include_levels.t = "list" THEN b.include_levels.items ELSE AllLevels

\* include_levels of the POST handler after its refinement (lines 267-273)
PostLevels(b) ==
    LET base == IF TruthyVal(b.include_levels) THEN b.include_levels.items ELSE AllLevels
        text == TextOf(b.user_message)
        with_ad == IF "ad" \notin Range(base) /\ AnyIn(ads_keywords, text)
                   THEN Append(base, "ad") ELSE base
    IN  IF "adset" \notin Range(with_ad) /\ AnyIn(adset_keywords, text)
        THEN Append(with_ad, "adset") ELSE with_ad

\* The levels the GET handler fetches: campaign always (lines 185-192), the
\* others by the question's wording (lines 199, 209)
GetLevels(b) ==
    <<"campaign">>
    \o (IF wants_adsets(b.user_message) THEN <<"adset">> ELSE <<>>)
    \o (IF wants_ads(b.user_message) THEN <<"ad">> ELSE <<>>)

\* period_label (lines 221, 311)
PeriodLabel(b) ==
    IF TruthyVal(b.since) /\ TruthyVal(b.until)
    THEN Str(b.since.s \o InfixAte \o b.until.s)
    ELSE IF TruthyVal(b.date_preset) THEN b.date_preset ELSE S_last_7d

\* The intent names detected in a message, in the table's order (lines 223-235, 315-326)
Intent(user_message) ==
    IF TruthyVal(user_message)
    THEN LET hit == SelectSeq(IntentTable, LAMBDA e : AnyIn(e.keys, LowerStr(user_message.s)))
         IN  [i \in 1..Len(hit) |-> hit[i].name]
    ELSE <<>>

RECURSIVE Join(_)
\* ', '.join(names)
Join(names) ==
    IF names = <<>> THEN <<>>
    ELSE IF Len(names) = 1 THEN names[1]
    ELSE names[1] \o CommaSpace \o Join(Tail(names))

\* augmented_query (lines 236-238, 313, 327-328)
AugmentedQuery(user_message) ==
    IF Intent(user_message) # <<>>
    THEN Str(user_message.s \o InfixIntent \o Join(Intent(user_message)))
    ELSE user_message

NoAnalysis == [sanitized |-> FALSE, text |-> <<>>]

NoResponse == [status |-> 0, detail |-> "", analysis |-> NoAnalysis, campaigns |-> Null,
               adsets |-> Null, ads |-> Null]

Http500_Ok(detail) == [NoResponse EXCEPT !.status = 200, !.detail = detail]

\* HTTPException(status_code=500, detail=...)
Http500(detail) == [NoResponse EXCEPT !.status = 500, !.detail = detail]

NoFetched == [campaign |-> Null, adset |-> Null, ad |-> Null]

FetchStages == {"fetch_campaign", "fetch_adset", "fetch_ad"}

StageLevel(pc) ==
    CASE pc = "fetch_campaign" -> "campaign"
      [] pc = "fetch_adset" -> "adset"
      [] pc = "fetch_ad" -> "ad"

StageAfter_AdFirst(pc) ==
    CASE pc = "fetch_campaign" -> "fetch_ad"
      [] pc = "fetch_ad" -> "fetch_adset"
      [] pc = "fetch_adset" -> "analyze"

StageAfter(pc) ==
    CASE pc = "fetch_campaign" -> "fetch_adset"
      [] pc = "fetch_adset" -> "fetch_ad"
      [] pc = "fetch_ad" -> "analyze"

\* The k page requests of one fetch, as they are logged
PageCalls(lv, k) == [j \in 1..k |-> [api |-> "metrics", level |-> lv, page |-> j]]

\* The normalized records of a fetch that took k pages
Records(lv, k) == SampleRecords(lv, [j \in 1..k |-> j])

\* What one fetch and its normalization come to: records, an error response
\* of the metrics API, or rows the normalizer or the schema rejects.
FetchOutcomes == {"records", "fetch_error", "invalid_rows"}

\* _require_env() (lines 68-72, called at 181 and 264), and the levels to fetch
ReqRequireEnv ==
    /\ r_pc = "require_env"
    /\ IF ~Truthy(env.META_ACCESS_TOKEN)
       THEN /\ response' = Http500("META_ACCESS_TOKEN ausente no .env")
            /\ r_pc' = "done"
            /\ UNCHANGED include_levels
       ELSE IF ~Truthy(env.META_AD_ACCOUNT_ID)
       THEN /\ response' = Http500("META_AD_ACCOUNT_ID ausente no .env")
            /\ r_pc' = "done"
            /\ UNCHANGED include_levels
       ELSE /\ include_levels' = IF endpoint = "POST" THEN PostLevels(body) ELSE GetLevels(body)
            /\ r_pc' = "fetch_campaign"
            /\ UNCHANGED response
    /\ UNCHANGED <<endpoint, env, body, calls, fetched>>

\* One level's fetch and normalization (lines 185-219, 279-309); an exception
\* is turned into a 500 response (lines 255-258, 349-352).
ReqFetch ==
    /\ r_pc \in FetchStages
    /\ LET lv == StageLevel(r_pc)
       IN  IF lv \notin Range(include_levels)
           THEN /\ r_pc' = StageAfter(r_pc)
                /\ UNCHANGED <<calls, fetched, response>>
           ELSE \E k \in 1..MaxFetchPages, outcome \in FetchOutcomes :
                  /\ calls' = calls \o PageCalls(lv, k)
                  /\ IF outcome = "records"
                     THEN /\ fetched' = [fetched EXCEPT ![lv] = Records(lv, k)]
                          /\ r_pc' = StageAfter(r_pc)
                          /\ UNCHANGED response
                     ELSE /\ response' = Http500(outcome)
                          /\ r_pc' = "done"
                          /\ UNCHANGED fetched
    /\ UNCHANGED <<endpoint, env, body, include_levels>>

\* [..] if campaigns else None (lines 330, 334-335)
OrNone(v) == IF TruthyVal(v) THEN v ELSE Null

\* The arguments of analyze_campaigns_with_gpt (lines 239-246, 329-338)
AnalyzeArgs(ep, b, got) ==
    IF ep = "GET"
    THEN [campaigns |-> got.campaign, adsets |-> got.adset, ads |-> got.ad,
          user_query |-> AugmentedQuery(b.user_message),
          period_label |-> PeriodLabel(b),
          intents |-> List(Intent(b.user_message))]
    ELSE [campaigns |-> OrNone(got.campaign), adsets |-> OrNone(got.adset),
          ads |-> OrNone(got.ad),
          user_query |-> AugmentedQuery(b.user_message),
          period_label |-> PeriodLabel(b),
          intents |-> IF TruthyVal(b.user_message)
                      THEN List(Intent(b.user_message)) ELSE Null]

\* analyze_campaigns_with_gpt(..., api_key=OPENAI_API_KEY, ...) is entered
ReqCallLLM ==
    /\ r_pc = "analyze"
    /\ l_pc = "idle"
    /\ l_pc' = "call"
    /\ api_key' = env.OPENAI_API_KEY
    /\ l_args' = AnalyzeArgs(endpoint, body, fetched)
    /\ history' = IF endpoint = "POST" THEN OrNone(body.messages) ELSE Null
    /\ r_pc' = "llm"
    /\ UNCHANGED <<client, prompt, messages, chat_calls, l_result, l_error>>
    /\ UNCHANGED <<endpoint, env, body, include_levels, calls, fetched, response>>

\* The text of the reply that l_result names
ReplyText == <<"-", " ", "R", "O", "A", "S", " ", "2", " ", ",", " ", "5", "\n", "o", "k">>

\* _sanitize_analysis(analysis_text) (lines 247, 339)
Sanitized(reply) == [sanitized |-> TRUE, text |-> _sanitize_analysis(ReplyText)]

\* The call has returned or raised: the response (lines 247-258, 339-352).
\* The GET handler validates the campaign records only now (lines 249-250),
\* and the schema may reject them.
ReqRespond ==
    /\ r_pc = "llm"
    /\ l_pc \in {"returned", "raised"}
    /\ r_pc' = "done"
    /\ \E valid \in BOOLEAN :
        response' =
         IF l_pc = "raised" THEN Http500(l_error.message)
         ELSE IF endpoint = "GET"
         THEN IF body.include_campaigns /\ ~valid
              THEN Http500("invalid_rows")
              ELSE [NoResponse EXCEPT !.status = 200,
                                 !.analysis = Sanitized(l_result),
                                 !.campaigns = IF body.include_campaigns
                                               THEN fetched.campaign ELSE Null]
         ELSE [NoResponse EXCEPT !.status = 200,
                                 !.analysis = Sanitized(l_result),
                                 !.campaigns = IF body.include_campaigns
                                               THEN fetched.campaign ELSE Null,
                                 !.adsets = IF body.include_campaigns
                                            THEN fetched.adset ELSE Null,
                                 !.ads = IF body.include_campaigns
                                         THEN fetched.ad ELSE Null]
    /\ UNCHANGED <<endpoint, env, body, include_levels, calls, fetched>>
    /\ UNCHANGED llmVars

\* The environment: each variable is set or left to os.getenv's default ""
EnvValues == {"", "set"}

Envs == [META_ACCESS_TOKEN : EnvValues, META_AD_ACCOUNT_ID : EnvValues,
         OPENAI_API_KEY : EnvValues]

\* include_levels of a POST body
LevelLists == {Null, List(<<>>), List(<<"campaign">>), List(<<"ad">>),
               List(<<"adset", "bogus">>), List(<<"bogus">>)}

\* messages of a POST body
BodyMessages == {Null, HistoryOf(2, 0)}

Bodies(ep) ==
    [user_message : UserMessages,
     include_campaigns : BOOLEAN,
     include_levels : IF ep = "POST" THEN LevelLists ELSE {Null},
     messages : IF ep = "POST" THEN BodyMessages ELSE {Null},
     date_preset : {S_last_7d},
     since : {Null, S_date_a},
     until : {S_date_b}]

ReqInit ==
    /\ r_pc = "require_env"
    /\ endpoint \in {"GET", "POST"}
    /\ env \in Envs
    /\ body \in Bodies(endpoint)
    /\ include_levels = <<>>
    /\ calls = <<>>
    /\ fetched = NoFetched
    /\ response = NoResponse

ReqIdle ==
    /\ r_pc = "idle"
    /\ endpoint = "GET"
    /\ env = [META_ACCESS_TOKEN |-> "", META_AD_ACCOUNT_ID |-> "", OPENAI_API_KEY |-> ""]
    /\ body = [user_message |-> Null, include_campaigns |-> TRUE, include_levels |-> Null,
               messages |-> Null, date_preset |-> S_last_7d, since |-> Null, until |-> Null]
    /\ include_levels = <<>>
    /\ calls = <<>>
    /\ fetched = NoFetched
    /\ response = NoResponse

----------------------------------------------------------------------------
(* Specifications *)

FetchIdle ==
    /\ f_pc = "idle"
    /\ f_fn = "fetch_insights"
    /\ level = "campaign"
    /\ since = None
    /\ until = None
    /\ url = ""
    /\ params = EmptyParams
    /\ all_data = <<>>
    /\ requests = <<>>
    /\ served = <<>>
    /\ f_result = NoResult
    /\ f_error = NoError

FetchNext ==
    \/ FetchCall /\ UNCHANGED <<pickVars, normVars, llmVars, reqVars, promptVars, sanVars, chatVars>>
    \/ FetchPage /\ UNCHANGED <<pickVars, normVars, llmVars, reqVars, promptVars, sanVars, chatVars>>

SpecFetchInit == FetchInit /\ PickIdle /\ NormIdle /\ LlmIdle /\ ReqIdle /\ PromptIdle /\ SanIdle /\ ChatIdle

SpecFetch == SpecFetchInit /\ [][FetchNext]_vars

PickNext == PickApply /\ UNCHANGED <<fetchVars, normVars, llmVars, reqVars, promptVars, sanVars, chatVars>>

SpecPickInit == PickInit /\ FetchIdle /\ NormIdle /\ LlmIdle /\ ReqIdle /\ PromptIdle /\ SanIdle /\ ChatIdle

SpecPick == SpecPickInit /\ [][PickNext]_vars

NormNext ==
    \/ NormCall /\ UNCHANGED <<fetchVars, pickVars, llmVars, reqVars, promptVars, sanVars, chatVars>>
    \/ NormRow /\ UNCHANGED <<fetchVars, pickVars, llmVars, reqVars, promptVars, sanVars, chatVars>>
    \/ NormReturn /\ UNCHANGED <<fetchVars, pickVars, llmVars, reqVars, promptVars, sanVars, chatVars>>

SpecNormInit == NormInit /\ FetchIdle /\ PickIdle /\ LlmIdle /\ ReqIdle /\ PromptIdle /\ SanIdle /\ ChatIdle

SpecNorm == SpecNormInit /\ [][NormNext]_vars

LlmNext ==
    \/ LlmCheckKey /\ UNCHANGED <<fetchVars, pickVars, normVars, reqVars, promptVars, sanVars, chatVars>>
    \/ LlmClient /\ UNCHANGED <<fetchVars, pickVars, normVars, reqVars, promptVars, sanVars, chatVars>>
    \/ LlmPrompt /\ UNCHANGED <<fetchVars, pickVars, normVars, reqVars, promptVars, sanVars, chatVars>>
    \/ LlmMessages /\ UNCHANGED <<fetchVars, pickVars, normVars, reqVars, promptVars, sanVars, chatVars>>
    \/ LlmChat /\ UNCHANGED <<fetchVars, pickVars, normVars, reqVars, promptVars, sanVars, chatVars>>

SpecLLMInit == LlmInit /\ FetchIdle /\ PickIdle /\ NormIdle /\ ReqIdle /\ PromptIdle /\ SanIdle /\ ChatIdle

SpecLLM == SpecLLMInit /\ [][LlmNext]_vars

ReqNext ==
    \/ ReqRequireEnv /\ UNCHANGED <<llmVars, fetchVars, pickVars, normVars, promptVars, sanVars, chatVars>>
    \/ ReqFetch /\ UNCHANGED <<llmVars, fetchVars, pickVars, normVars, promptVars, sanVars, chatVars>>
    \/ ReqCallLLM /\ UNCHANGED <<fetchVars, pickVars, normVars, promptVars, sanVars, chatVars>>
    \/ LlmCheckKey /\ UNCHANGED <<reqVars, fetchVars, pickVars, normVars, promptVars, sanVars, chatVars>>
    \/ LlmClient /\ UNCHANGED <<reqVars, fetchVars, pickVars, normVars, promptVars, sanVars, chatVars>>
    \/ LlmPrompt /\ UNCHANGED <<reqVars, fetchVars, pickVars, normVars, promptVars, sanVars, chatVars>>
    \/ LlmMessages /\ UNCHANGED <<reqVars, fetchVars, pickVars, normVars, promptVars, sanVars, chatVars>>
    \/ LlmChat /\ UNCHANGED <<reqVars, fetchVars, pickVars, normVars, promptVars, sanVars, chatVars>>
    \/ ReqRespond /\ UNCHANGED <<fetchVars, pickVars, normVars, promptVars, sanVars, chatVars>>

SpecReqInit == ReqInit /\ LlmIdle /\ FetchIdle /\ PickIdle /\ NormIdle /\ PromptIdle /\ SanIdle /\ ChatIdle

SpecReq == SpecReqInit /\ [][ReqNext]_vars

PromptNext == PromptBuild /\ UNCHANGED <<fetchVars, pickVars, normVars, llmVars, reqVars, sanVars, chatVars>>

SpecPromptInit == PromptInit /\ FetchIdle /\ PickIdle /\ NormIdle /\ LlmIdle /\ ReqIdle /\ SanIdle /\ ChatIdle

SpecPrompt == SpecPromptInit /\ [][PromptNext]_vars

SanNext ==
    SanApply /\ UNCHANGED <<fetchVars, pickVars, normVars, llmVars, reqVars, promptVars,
                           chatVars>>

SpecSanInit ==
    SanInit /\ FetchIdle /\ PickIdle /\ NormIdle /\ LlmIdle /\ ReqIdle /\ PromptIdle
    /\ ChatIdle

SpecSan == SpecSanInit /\ [][SanNext]_vars

ChatNext ==
    \/ ChatSubmit /\ UNCHANGED <<fetchVars, pickVars, normVars, llmVars, reqVars, promptVars, sanVars>>
    \/ ChatPost /\ UNCHANGED <<fetchVars, pickVars, normVars, llmVars, reqVars, promptVars, sanVars>>
    \/ ChatReply /\ UNCHANGED <<fetchVars, pickVars, normVars, llmVars, reqVars, promptVars, sanVars>>
    \/ ChatExcept /\ UNCHANGED <<fetchVars, pickVars, normVars, llmVars, reqVars, promptVars, sanVars>>
    \/ ChatAnalyzeButton /\ UNCHANGED <<fetchVars, pickVars, normVars, llmVars, reqVars, promptVars, sanVars>>

SpecChatInit ==
    ChatInit /\ FetchIdle /\ PickIdle /\ NormIdle /\ LlmIdle /\ ReqIdle /\ PromptIdle
    /\ SanIdle

SpecChat == SpecChatInit /\ [][ChatNext]_vars

----------------------------------------------------------------------------
(* Properties of the paginated fetch *)

RECURSIVE ConcatPages(_)
ConcatPages(pages) ==
    IF pages = <<>> THEN <<>>
    ELSE (IF pages[1].has_data THEN pages[1].data ELSE <<>>)
         \o ConcatPages(Tail(pages))

SuccessPage(r) == r.status = 200 /\ r.error = "absent"

\* The server has served a complete chain: every page a success, every page
\* but the last with a next reference, the last without one.
ChainServed ==
    /\ Len(served) >= 1
    /\ \A i \in 1..Len(served) :
         /\ SuccessPage(served[i])
         /\ (i < Len(served)) <=> (served[i].next \notin {None, ""})

\* C1: against a server that serves a finite chain of k successful pages
\* (pages 1..k-1 with a next reference, page k without), the fetch returns the
\* concatenation of the k pages' rows in page and row order and has issued
\* exactly k requests: the first to the insights endpoint, request i+1 to the
\* next reference of page i.
C1_ChainConcat ==
    ChainServed =>
        /\ f_pc = "returned"
        /\ f_result = ConcatPages(served)
        /\ Len(requests) = Len(served)
        /\ requests[1].url = GRAPH_BASE
        /\ \A i \in 1..(Len(served) - 1) : requests[i + 1].url = served[i].next

C1_Witness ==
    /\ f_pc = "returned"
    /\ Len(served) = 3
    /\ Len(served[1].data) = 2
    /\ Len(served[2].data) = 1
    /\ Len(f_result) >= 4

\* C2: once a page response has a non-success status or an embedded error
\* object, the fetch has ended by raising an error with the server's message
\* (the default text when the server gave none); nothing is returned, the
\* failing page's rows are not accumulated and that response is the last one
\* requested.
C2_ErrorAborts ==
    \A i \in 1..Len(served) :
        (served[i].status # 200 \/ served[i].error # "absent") =>
            /\ i = Len(served)
            /\ Len(requests) = Len(served)
            /\ f_pc = "raised"
            /\ f_result = NoResult
            /\ f_error.type = "RuntimeError"
            /\ f_error.message = IF served[i].error = "message"
                                 THEN served[i].message
                                 ELSE DefaultErrorMessage
            /\ all_data = ConcatPages(SubSeq(served, 1, i - 1))

C2_Witness ==
    /\ f_pc = "raised"
    /\ Len(served) = 3
    /\ served[3].status = 200
    /\ served[3].error = "message"
    /\ Len(served[3].data) = 1
    /\ Len(all_data) = 2
    /\ f_error.message = "(#17) limit reached"

----------------------------------------------------------------------------
(* Properties of the purchase resolution *)

\* The priority order as the claims list it
ClaimedPriority ==
    <<T_omni_purchase, T_offsite_fb_pixel_purchase, T_offsite_purchase,
      T_onsite_purchase, T_fb_pixel_purchase, T_purchase>>

\* The tag of an entry, compared case-insensitively
TagOf(e) == LowerStr(e.action_type.s)

PriorityRanks(items) ==
    {t \in 1..Len(ClaimedPriority) :
        \E i \in 1..Len(items) : TagOf(items[i]) = ClaimedPriority[t]}

HasPriorityTag(items) == PriorityRanks(items) # {}

BestTag(items) ==
    ClaimedPriority[CHOOSE t \in PriorityRanks(items) :
                        \A u \in PriorityRanks(items) : t <= u]

ClaimedPurchaseLike(e) ==
    \/ TagOf(e) \in {T_purchase, T_fb_pixel_purchase, T_offsite_purchase,
                     T_offsite_fb_pixel_purchase, T_onsite_purchase, T_omni_purchase}
    \/ EndsWith(TagOf(e), <<".", "p", "u", "r", "c", "h", "a", "s", "e">>)
    \/ EndsWith(TagOf(e), <<"_", "p", "u", "r", "c", "h", "a", "s", "e">>)

RECURSIVE ClaimedCountSum(_)
ClaimedCountSum(items) ==
    IF items = <<>> THEN 0
    ELSE (IF ClaimedPurchaseLike(items[1]) THEN _to_int(items[1].value) ELSE 0)
         + ClaimedCountSum(Tail(items))

RECURSIVE ClaimedValueSum(_)
ClaimedValueSum(items) ==
    IF items = <<>> THEN Zero
    ELSE LET rest == ClaimedValueSum(SubSeq(items, 1, Len(items) - 1))
             e == items[Len(items)]
         IN  IF ClaimedPurchaseLike(e) THEN FAdd(rest, _to_float(e.value)) ELSE rest

\* C8: when no entry carries a tag of the priority list (tags compared
\* case-insensitively), the resolved count and value are the sums over the
\* entries whose tag is purchase-like (in the allowed set, or ending with
\* ".purchase" or "_purchase"); other entries add nothing and the result is 0
\* when no entry matches.
C8_FallbackSum ==
    (p_pc = "done" /\ ~HasPriorityTag(p_actions.items)) =>
        /\ p_count = ClaimedCountSum(p_actions.items)
        /\ p_value = ClaimedValueSum(p_actions.items)
        /\ (\A i \in 1..Len(p_actions.items) :
                ~ClaimedPurchaseLike(p_actions.items[i])) =>
             (p_count = 0 /\ p_value = Zero)

C8_Witness ==
    /\ p_pc = "done"
    /\ p_actions.items = <<Entry(Str(T_custom_purchase), Str(S_2_5)),
                           Entry(Str(T_link_click), Str(S_5)),
                           Entry(Str(T_App_Purchase), Str(S_3))>>
    /\ p_count = 5
    /\ p_value = Fin(11, 2)

----------------------------------------------------------------------------
(* Properties of the normalizers *)

FloatFields == {"spend", "cpm", "cpc"}

IntFields == {"impressions", "clicks"}

\* A metric value that is non-numeric, null, infinite or NaN
Malformed(v) == PyFloatRaises(v) \/ PyFloat(v).k # "fin"

IsZero(x) == x.k = "fin" /\ x.n = 0

\* == on floats: nan equals nothing
FEq(a, b) == a.k # "nan" /\ b.k # "nan" /\ a = b

\* C5 as stated: no normalizer ever raises, and a malformed value of a row
\* gives a zero in the record's field.
C5_NeverRaises ==
    /\ n_pc # "raised"
    /\ \A i \in 1..Len(normalized) :
         /\ \A f \in FloatFields :
              Malformed(raw[i][f]) => IsZero(normalized[i].m[f])
         /\ \A f \in IntFields :
              Malformed(raw[i][f]) => normalized[i].m[f] = 0

\* C6: a normalizer that returns gives one record per raw row, the i-th made
\* from the i-th row alone, and the raw list is what it was at the call.
C6_OneToOne ==
    /\ raw = raw0
    /\ n_pc = "returned" =>
         /\ Len(n_result) = Len(raw)
         /\ \A i \in 1..Len(raw) : n_result[i] = NormalizeRow(n_level, raw[i])

C6_Witness ==
    /\ n_pc = "returned"
    /\ Len(raw) = 3
    /\ raw[1] # raw[2]
    /\ raw[2] # raw[3]
    /\ n_result[1] # n_result[3]

\* C9 as stated: in every record, spend > 0 gives roas = round(purchase_value
\* / spend, 4) of the record's own fields, and spend = 0 gives roas = 0
\* (a nan is compared as a value, so a nan roas from a nan operand agrees).
C9_RoasOfRecordFields ==
    \A i \in 1..Len(normalized) :
        LET r == normalized[i].m
        IN  /\ FGt0(r.spend) =>
                 r.roas = Round4(FDiv(r.purchase_value, r.spend))
            /\ IsZero(r.spend) => IsZero(r.roas)

\* round(x, 4) leaves x alone: x is not finite, or has at most four decimals
FourDecimals(x) == x.k # "fin" \/ 10000 % Reduced(x.n, x.d).d = 0

\* C9 amended: the record's fields satisfy the two equations whenever
\* rounding to four decimals leaves the row's coerced spend and its resolved
\* purchase value unchanged (roas is computed from the values before they
\* are rounded for the record; a nan is compared as a value).
C9_RoasOfUnroundedValues ==
    \A i \in 1..Len(normalized) :
        LET r == normalized[i].m
            spend == _to_float(Get(raw[i].spend, Num(Zero)))
            purchase_value == _pick_purchase_value(OrEmptyList(raw[i].action_values))
        IN  (FourDecimals(spend) /\ FourDecimals(purchase_value)) =>
                /\ FGt0(r.spend) =>
                     r.roas = Round4(FDiv(r.purchase_value, r.spend))
                /\ IsZero(r.spend) => IsZero(r.roas)

C9_Witness ==
    /\ n_pc = "returned"
    /\ Len(n_result) = 1
    /\ n_result[1].m.spend = Fin(105000, 10000)
    /\ n_result[1].m.purchase_value = Fin(25000, 10000)
    /\ n_result[1].m.roas = Fin(2381, 10000)

\* C10 as stated: with impressions > 0, ctr is clicks/impressions*100 rounded
\* to 4 decimals unless that value is 0, and then the provider's ctr; with
\* impressions = 0, ctr is the provider's ctr.
C10_CtrRecomputed ==
    \A i \in 1..Len(normalized) :
        LET r == normalized[i].m
            provider == Round4(_to_float(Get(raw[i].ctr, Num(Zero))))
        IN  /\ r.impressions > 0 =>
                 r.ctr = IF r.clicks # 0
                         THEN Round4(Fin(r.clicks * 100, r.impressions))
                         ELSE provider
            /\ r.impressions = 0 => r.ctr = provider

\* x >= 0 on floats; a nan is not counted as negative
NotNegative(x) == x.k # "ninf" /\ (x.k = "fin" => x.n >= 0)

\* C11 as stated: every record of a normalizer, for any raw row (rows with
\* negative numbers or negative numeric strings included), has impressions,
\* clicks, spend, cpm, cpc, purchases and purchase_value >= 0.
C11_NonNegativeFields ==
    \A i \in 1..Len(normalized) :
        LET r == normalized[i].m
        IN  /\ r.impressions >= 0
            /\ r.clicks >= 0
            /\ NotNegative(r.spend)
            /\ NotNegative(r.cpm)
            /\ NotNegative(r.cpc)
            /\ r.purchases >= 0
            /\ NotNegative(r.purchase_value)

\* C19: the three normalizers give the same impressions, clicks, spend, cpm,
\* cpc, ctr, purchases, purchase_value and roas for a raw row: the numeric
\* part of each record a normalizer has made is what each of the three makes
\* of that row.
C19_NormalizersAgree ==
    \A i \in 1..Len(normalized) :
        \A lv \in valid_levels :
            NormalizeRow(lv, raw[i]).m = normalized[i].m

C19_Witness ==
    /\ n_pc = "returned"
    /\ n_level = "ad"
    /\ Len(n_result) = 2
    /\ n_result[1].m # n_result[2].m
    /\ n_result[1].ids # NormalizeRow("campaign", raw[1]).ids
    /\ FGt0(n_result[1].m.ctr)

----------------------------------------------------------------------------
(* Properties of the analysis client and of the request handlers *)

\* Some required credential of the request is missing
CredentialMissing ==
    \/ env.META_ACCESS_TOKEN = ""
    \/ env.META_AD_ACCOUNT_ID = ""
    \/ env.OPENAI_API_KEY = ""

\* C3 as stated: in an analysis request with a missing credential (metrics
\* token, ad account id or LLM key) no request goes to the metrics API and
\* none to the LLM provider, and the request ends in an error.
C3_MissingCredentialNoRemoteCall ==
    (r_pc # "idle" /\ CredentialMissing) =>
        /\ calls = <<>>
        /\ chat_calls = <<>>
        /\ r_pc = "done" => response.status = 500

\* C4: analyze_campaigns_with_gpt called with an absent or empty key raises,
\* and no client is constructed, no prompt built and no chat-completion
\* request sent.
C4_MissingKeyRaisesFirst ==
    (l_pc # "idle" /\ api_key \in {None, ""}) =>
        /\ l_pc \in {"call", "raised"}
        /\ l_pc = "raised" => l_error.type = "RuntimeError"
        /\ client = NoClient
        /\ prompt = NoPrompt
        /\ messages = <<>>
        /\ chat_calls = <<>>

C4_Witness ==
    /\ l_pc = "raised"
    /\ api_key = ""
    /\ TruthyVal(history)
    /\ TruthyVal(l_args.campaigns)

\* C12: every chat-completion request carries one system message first, then
\* the last min(8, n) of the n prior turns in their order, each with role
\* user or assistant (another or a missing role becomes user, a missing
\* content the empty string), then one user message holding the prompt just
\* built; so 2 to 10 messages, and no turn older than the last 8.
C12_MessageSequence ==
    \A c \in 1..Len(chat_calls) :
        LET ms == chat_calls[c].messages
            turns == IF history.t = "list" THEN history.items ELSE <<>>
            n == Len(turns)
            k == IF n < 8 THEN n ELSE 8
        IN  /\ Len(ms) = k + 2
            /\ Len(ms) >= 2 /\ Len(ms) <= 10
            /\ ms[1] = SystemMessage
            /\ \A j \in 2..Len(ms) : ms[j].role # S_system
            /\ \A j \in 1..k :
                 LET t == turns[n - k + j]
                 IN  /\ ms[1 + j].role =
                          (IF t.role = S_assistant THEN S_assistant ELSE S_user)
                     /\ ms[1 + j].content =
                          (IF t.content.t = "missing" THEN Str(<<>>) ELSE t.content)
                     /\ ms[1 + j].prompt = NoPrompt
            /\ ms[k + 2].role = S_user
            /\ ms[k + 2].prompt = _build_prompt(l_args)
            /\ ms[k + 2].prompt.built

C12_Witness ==
    /\ Len(chat_calls) = 1
    /\ history.t = "list"
    /\ Len(history.items) = 9
    /\ Len(chat_calls[1].messages) = 10
    /\ \E j \in 2..9 : /\ history.items[j].role \notin {S_user, S_assistant}
                       /\ history.items[j].content.t = "missing"

LevelRank(lv) ==
    CASE lv = "campaign" -> 1
      [] lv = "adset" -> 2
      [] lv = "ad" -> 3

\* The request has completed successfully
Succeeded == r_pc = "done" /\ response.status = 200

C17_State ==
    /\ chat_calls # <<>> => r_pc \in {"llm", "done"}
    /\ Succeeded =>
         /\ \A i \in 1..Len(calls) : calls[i].api = "metrics"
         /\ \A i \in 1..(Len(calls) - 1) :
              LevelRank(calls[i].level) <= LevelRank(calls[i + 1].level)
         /\ \A i \in 1..Len(calls) :
              calls[i].page = IF i > 1 /\ calls[i - 1].level = calls[i].level
                              THEN calls[i - 1].page + 1 ELSE 1
         /\ \A lv \in Range(AllLevels) :
              (lv \in Range(include_levels)) <=>
                  (\E i \in 1..Len(calls) : calls[i].level = lv)
         /\ \A lv \in Range(AllLevels) :
              (lv \in Range(include_levels)) <=> fetched[lv] # Null
         /\ Len(chat_calls) = 1
         /\ LET ms == chat_calls[1].messages
            IN  ms[Len(ms)].prompt = _build_prompt(AnalyzeArgs(endpoint, body, fetched))

\* C17: in a request that completes successfully the page requests of the
\* metrics API go out level by level in the order campaign, ad set, ad, one
\* fetch for each level the handler includes and none for the others, each
\* fetch's pages in sequence; then one prompt is built from the normalized
\* records of all of them and exactly one chat-completion request is sent.
\* The chat-completion request is sent only once every fetch has returned,
\* and no page request follows it.
C17_SequentialCalls ==
    /\ []C17_State
    /\ [][chat_calls' # <<>> => calls' = calls]_vars

C17_Witness ==
    /\ Succeeded
    /\ endpoint = "POST"
    /\ Len(calls) >= 5
    /\ \A lv \in Range(AllLevels) : \E i \in 1..Len(calls) : calls[i].level = lv

\* The request has stopped on a failure
Failed == r_pc = "done" /\ response.status = 500

C18_State ==
    /\ r_pc = "done" => response.status \in {200, 500}
    /\ Failed =>
         /\ response.analysis = NoAnalysis
         /\ response.campaigns = Null
         /\ response.adsets = Null
         /\ response.ads = Null
    /\ (r_pc = "done" /\ l_pc = "idle") => (Failed /\ chat_calls = <<>>)
    /\ (r_pc = "done" /\ l_pc = "raised") => Failed
    /\ Succeeded =>
         /\ l_pc = "returned"
         /\ \A i \in 1..Len(calls) : fetched[calls[i].level] # Null
    /\ Len(chat_calls) <= 1
    /\ \A i, j \in 1..Len(calls) : i # j => calls[i] # calls[j]

\* C18: a failure of a metrics fetch, of normalization or validation, or of
\* the LLM call ends the request with an error response that carries no
\* analysis text and no records; after the failure no page request and no
\* chat-completion request is sent (none after a failed fetch in particular),
\* and no request is ever sent twice.
C18_FailureAborts ==
    /\ []C18_State
    /\ [][(l_pc = "raised" \/ r_pc = "done") =>
            (calls' = calls /\ chat_calls' = chat_calls)]_vars

C18_Witness ==
    /\ Failed
    /\ Len(calls) >= 3
    /\ fetched.campaign # Null
    /\ calls[Len(calls)].level = "ad"
    /\ chat_calls = <<>>

----------------------------------------------------------------------------
(* Properties of the prompt builder *)

\* A column of the CSV view's frame, for one of its rows
CsvColumn(r, name) ==
    CASE name = "spend_share" -> r.spend_share
      [] name = "rev_share" -> r.rev_share
      [] OTHER -> r.rec.m[name]

RECURSIVE SumOver(_, _)
SumOver(rows, name) ==
    IF rows = <<>> THEN Zero
    ELSE FAdd(CsvColumn(rows[1], name), SumOver(Tail(rows), name))

\* The shares of one column of a block: they sum to 100 when the column's
\* total is not zero, and are all 0 when it is
SharesOfColumn(rows, name, share) ==
    IF SumOver(rows, name).n # 0
    THEN SumOver(rows, share) = Fin(100, 1)
    ELSE \A i \in 1..Len(rows) : CsvColumn(rows[i], share) = Zero

\* C13: in every prompt built, for each non-empty granularity the spend_share
\* values sum to 100 when the total spend is not zero and the rev_share values
\* sum to 100 when the total purchase_value is not zero; when a total is zero
\* every share of that column is 0.
C13_SharesOfTotal ==
    \A k \in 1..Len(b_outs) :
        \A j \in 1..Len(b_outs[k].csv_view.blocks) :
            LET rows == b_outs[k].csv_view.blocks[j].rows
            IN  /\ SharesOfColumn(rows, "spend", "spend_share")
                /\ SharesOfColumn(rows, "purchase_value", "rev_share")

\* No granularity of the arguments holds a record
NoData(a) == ~TruthyVal(a.campaigns) /\ ~TruthyVal(a.adsets) /\ ~TruthyVal(a.ads)

\* C14: when every granularity is absent or empty, the prompt is built, its
\* availability, highlights, statistics and full-data sections are the fixed
\* placeholder texts, and it is the prompt built when every granularity is
\* absent (None).
C14_EmptyPrompt ==
    \A k \in 1..Len(b_outs) :
        NoData(b_args0) =>
            /\ b_outs[k].built
            /\ b_outs[k].availability =
                   [text |-> "Nenhum dado disponível no período.", blocks |-> <<>>]
            /\ b_outs[k].highlights = [text |-> "(sem destaques)", blocks |-> <<>>]
            /\ b_outs[k].stats_text = [text |-> "(sem estatísticas)", blocks |-> <<>>]
            /\ b_outs[k].csv_view = [text |-> "(sem dados)", blocks |-> <<>>]
            /\ b_outs[k] = _build_prompt([b_args0 EXCEPT !.campaigns = Null,
                                                         !.adsets = Null,
                                                         !.ads = Null])

\* a prompt was built from an empty list, an absent collection and a question
C14_Witness ==
    /\ b_outs # <<>>
    /\ b_args0.campaigns = List(<<>>)
    /\ b_args0.adsets = Null
    /\ b_args0.ads = List(<<>>)
    /\ TruthyVal(b_args0.user_query)

GroupDirectives ==
    <<"Modo: Relatório de criativos", "Modo: Plano de orçamento",
      "Modo: Diagnóstico", "Modo: Go-to-market">>

DefaultDirective == "Modo: Responda de forma específica"

GroupTags == <<creative_tags, budget_tags, diagnostic_tags, go_to_market_tags>>

\* The intent tags of the arguments (none when the argument is absent)
TagsOf(a) == IF TruthyVal(a.intents) THEN a.intents.items ELSE <<>>

\* The group whose directive a tag of the request handlers must select
BoundaryGroup(tag) ==
    CASE tag = <<"a", "n", "a", "l", "i", "s", "e", "_", "c", "r", "i", "a", "t", "i", "v", "o", "s">> -> 1
      [] tag = <<"a", "l", "o", "c", "a", "c", "a", "o", "_", "o", "r", "c", "a", "m", "e", "n", "t", "o">> -> 2
      [] tag = <<"d", "i", "a", "g", "n", "o", "s", "t", "i", "c", "o">> -> 3
      [] tag = <<"n", "o", "v", "o", "_", "p", "r", "o", "d", "u", "t", "o">> -> 4
      [] tag = <<"e", "s", "t", "r", "u", "t", "u", "r", "a">> -> 4
      [] OTHER -> 0

\* C20: the prompt holds the directive of each keyword group that has a tag
\* among the intent tags, in the fixed order of the groups, and the default
\* directive exactly when no tag belongs to a group; a directive is always
\* present; each tag the request handlers emit selects its group's directive,
\* never the default.
C20_StyleDirectives ==
    /\ \A e \in 1..Len(IntentTable) : BoundaryGroup(IntentTable[e].name) # 0
    /\ \A k \in 1..Len(b_outs) :
        LET style == b_outs[k].style
            tags == TagsOf(b_args0)
            hit == {g \in 1..4 : AnyTag(GroupTags[g], tags)}
            InStyle(d) == \E i \in 1..Len(style) : style[i] = d
        IN  /\ style # <<>>
            /\ IF hit = {}
               THEN style = <<DefaultDirective>>
               ELSE style = SelectSeq(GroupDirectives,
                                      LAMBDA d : \E g \in hit : GroupDirectives[g] = d)
            /\ \A i \in 1..Len(tags) :
                   BoundaryGroup(tags[i]) # 0 =>
                       /\ InStyle(GroupDirectives[BoundaryGroup(tags[i])])
                       /\ ~InStyle(DefaultDirective)

\* a prompt was built for the tags estrutura and analise_criativos, given in
\* that order: it holds the creative directive, then the go-to-market one
C20_Witness ==
    /\ b_outs # <<>>
    /\ TagsOf(b_args0) = <<<<"e", "s", "t", "r", "u", "t", "u", "r", "a">>,
                           <<"a", "n", "a", "l", "i", "s", "e", "_", "c", "r", "i", "a", "t", "i", "v", "o", "s">>>>
    /\ b_outs[1].style = <<"Modo: Relatório de criativos", "Modo: Go-to-market">>

----------------------------------------------------------------------------
(* Properties of the response sanitizer *)

\* C15: the sanitizer is idempotent: applying it to its own result gives
\* that result again.
C15_Idempotent ==
    \A k \in 2..Len(s_outs) : s_outs[k] = s_outs[k - 1]

\* The text an application of the sanitizer is given
SanInput(k) == IF k = 1 THEN s_text ELSE s_outs[k - 1]

\* The header labels, as the words of each
HeaderLabels ==
    {<<<<"r", "e", "s", "p", "o", "s", "t", "a">>, <<"d", "i", "r", "e", "t", "a">>>>,
     <<<<"e", "v", "i", "d", "ê", "n", "c", "i", "a", "s">>>>,
     <<<<"e", "v", "i", "d", "e", "n", "c", "i", "a", "s">>>>,
     <<<<"a", "ç", "õ", "e", "s">>, <<"r", "e", "c", "o", "m", "e", "n", "d", "a", "d", "a", "s">>>>,
     <<<<"a", "c", "o", "e", "s">>, <<"r", "e", "c", "o", "m", "e", "n", "d", "a", "d", "a", "s">>>>,
     <<<<"r", "i", "s", "c", "o", "s">>>>,
     <<<<"r", "i", "s", "c", "o", "s", "/", "o", "b", "s", "e", "r", "v", "a", "ç", "õ", "e", "s">>>>,
     <<<<"p", "r", "ó", "x", "i", "m", "o", "s">>, <<"p", "a", "s", "s", "o", "s">>>>}

\* The words, separated by whitespace, start the line and a colon follows them
LabelStarts(line, words) ==
    LET n == Len(words)
        \* the line from position p starts with the words from the w-th on
        StartsAt[w \in 1..(n + 1), p \in 1..(Len(line) + 1)] ==
            IF w > n
            THEN \E q \in p..Len(line) :
                    /\ line[q] = ":"
                    /\ \A i \in p..(q - 1) : IsSpace(line[i])
            ELSE /\ p + Len(words[w]) - 1 <= Len(line)
                 /\ SubSeq(line, p, p + Len(words[w]) - 1) = words[w]
                 /\ IF w = n THEN StartsAt[w + 1, p + Len(words[w])]
                    ELSE \E q \in (p + Len(words[w]) + 1)..(Len(line) + 1) :
                            /\ \A i \in (p + Len(words[w]))..(q - 1) : IsSpace(line[i])
                            /\ q <= Len(line) /\ ~IsSpace(line[q])
                            /\ StartsAt[w + 1, q]
    IN  StartsAt[1, 1]

\* A header line: its trimmed, lowercased content starts with a header label
HeaderLine(line) ==
    \E words \in HeaderLabels : LabelStarts(LowerStr(Strip(line)), words)

\* C21: the result of the sanitizer is what the later steps (marker
\* stripping, whitespace) make of the lines that are not header lines: a line whose trimmed, lowercased content is a
\* header label with its colon is dropped with all that follows the label, any
\* other line is kept for the later steps, and a line is tested as it is
\* before its bullet or numbering is removed.
C21_HeaderLinesDropped ==
    \A k \in 1..Len(s_outs) :
        SanInput(k) # <<>> =>
            LET lines == SplitLines(Filtered(ReplaceAll(ReplaceAll(SanInput(k),
                             <<"\r", "\n">>, <<"\n">>), <<"\r">>, <<"\n">>)))
                kept == SelectSeq(lines, LAMBDA ln : ~HeaderLine(ln))
            IN  s_outs[k] = LaterSteps(JoinLines(StripMarkers(kept)))

\* a text of two lines, the second a header line with text after its label,
\* was sanitized to its first line; and a bulleted header line was kept
C21_Witness ==
    /\ s_outs # <<>>
    /\ \/ /\ s_text = <<"i", "t", "e", "m", "\n", "R", "e", "s", "p", "o", "s", "t", "a", " ", "d", "i", "r", "e", "t", "a", ":", " ", "X">>
          /\ s_outs[1] = <<"i", "t", "e", "m">>
       \/ /\ s_text = <<"-", " ", "R", "e", "s", "p", "o", "s", "t", "a", " ", "d", "i", "r", "e", "t", "a", ":", " ", "X">>
          /\ s_outs[1] = <<"R", "e", "s", "p", "o", "s", "t", "a", " ", "d", "i", "r", "e", "t", "a", ":", " ", "X">>

\* C22: no result of the sanitizer holds three newline characters in a row.
C22_NoTripleNewline ==
    \A k \in 1..Len(s_outs) :
        \A i \in 1..(Len(s_outs[k]) - 2) :
            ~(s_outs[k][i] = "\n" /\ s_outs[k][i + 1] = "\n" /\ s_outs[k][i + 2] = "\n")

----------------------------------------------------------------------------
(* Properties of the requests of the paginated fetch *)

\* The parameters every first request carries
FixedKeys == {"fields", "level", "limit", "access_token", "action_report_time",
              "use_unified_attribution_setting"}

\* since and until are both given and non-empty
RangeGiven == since # None /\ since # "" /\ until # None /\ until # ""

\* C23: the first request carries the field list of the level, the level, the
\* result ceiling, the access token, the two attribution flags and exactly one
\* date selector: the time range when since and until are both non-empty,
\* otherwise the preset; every later request goes to the next reference the
\* server gave, with no parameter at all.
C23_RequestParams ==
    /\ requests # <<>> =>
         LET first == requests[1].params
         IN  /\ requests[1].url = GRAPH_BASE
             /\ DOMAIN first = FixedKeys \cup
                    (IF RangeGiven THEN {"time_range"} ELSE {"date_preset"})
             /\ first["fields"] = id_fields(level) \o common_fields
             /\ first["level"] = level
             /\ first["limit"] = "5000"
             /\ first["access_token"] = "access_token"
             /\ first["action_report_time"] = "conversion"
             /\ first["use_unified_attribution_setting"] = "True"
             /\ IF RangeGiven THEN first["time_range"] = <<since, until>>
                ELSE first["date_preset"] = DefaultDatePreset
    /\ \A i \in 2..Len(requests) :
         /\ DOMAIN requests[i].params = {}
         /\ requests[i].url = served[i - 1].next

\* a fetch given a lone since has asked for the preset and then followed a
\* next reference
C23_Witness ==
    /\ Len(requests) >= 2
    /\ since # None /\ since # ""
    /\ until = None
    /\ "date_preset" \in DOMAIN requests[1].params

\* The response is a successful page that names a next page
Continues(r) == r.status = 200 /\ r.error = "absent" /\ r.next # None /\ r.next # ""

\* The response is a successful page that names no next page
LastPage(r) == r.status = 200 /\ r.error = "absent" /\ (r.next = None \/ r.next = "")

\* C24: the loop ends exactly at the first response that names no next page or
\* signals an error; until then every response is followed by another
\* request, however many pages were read and whether or not the next
\* reference was seen before, and the rows of every page are kept, so a
\* server whose references never end keeps the fetch running and its row
\* list growing (the model stops following at MaxPages requests).
C24_LoopEndsOnlyOnLastPageOrError ==
    /\ Len(requests) = Len(served)
    /\ \A i \in 1..(Len(served) - 1) : Continues(served[i])
    /\ f_pc = "loop" =>
         /\ \A i \in 1..Len(served) : Continues(served[i])
         /\ all_data = ConcatPages(served)
         /\ Len(requests) < MaxPages => ENABLED FetchPage
    /\ f_pc = "returned" => served # <<>> /\ LastPage(served[Len(served)])
    /\ (f_pc = "raised" /\ f_error.type = "RuntimeError") =>
         /\ served # <<>>
         /\ ~Continues(served[Len(served)])
         /\ ~LastPage(served[Len(served)])

\* the server has answered every request with the same next reference; the
\* fetch has read MaxPages pages, is still in its loop and holds their rows
C24_Witness ==
    /\ f_pc = "loop"
    /\ Len(served) = MaxPages
    /\ \A i \in 1..Len(served) : served[i].next = "next_a"
    /\ Len(all_data) >= MaxPages

----------------------------------------------------------------------------
(* Properties of the purchase fields of a record *)

\* The entries of an actions / action_values member of a row that was
\* normalized (none when the member is absent, null or empty)
ItemsOf(v) == IF v.t = "list" THEN v.items ELSE <<>>

\* The entry a list's priority pick takes: the last one with the best tag
PickedEntry(items) ==
    LET carriers == {i \in 1..Len(items) : TagOf(items[i]) = BestTag(items)}
    IN  items[CHOOSE i \in carriers : \A j \in carriers : j <= i]

\* The amount an entry carries: its value, 0 when it has none
AmountOf(e) == IF e.value.t = "missing" THEN Num(Zero) ELSE e.value

\* The count and the value one list resolves to, by priority pick or by sum
CountOfList(items) ==
    IF HasPriorityTag(items) THEN _to_int(AmountOf(PickedEntry(items)))
    ELSE ClaimedCountSum(items)

ValueOfList(items) ==
    IF HasPriorityTag(items) THEN _to_float(AmountOf(PickedEntry(items)))
    ELSE ClaimedValueSum(items)

\* A value that no number can be read from, or a zero
NoAmount(v) == PyFloatRaises(v) \/ (PyFloat(v).k = "fin" /\ PyFloat(v).n = 0)

----------------------------------------------------------------------------
(* Properties of the levels POST /meta/analyze fetches *)

\* The levels the metrics API was asked for so far
LevelsFetched == {calls[i].level : i \in 1..Len(calls)}

ValidLevels == {"campaign", "adset", "ad"}

\* The levels a POST body is claimed to have fetched
ClaimedLevels(b) ==
    IF b.include_levels.t # "list" \/ b.include_levels.items = <<>>
    THEN ValidLevels
    ELSE (Range(b.include_levels.items) \cap ValidLevels)
         \cup (IF AnyIn(ads_keywords, TextOf(b.user_message)) THEN {"ad"} ELSE {})
         \cup (IF AnyIn(adset_keywords, TextOf(b.user_message)) THEN {"adset"} ELSE {})

\* Every fetch of the request has been made and none failed
FetchesDone == r_pc \in {"analyze", "llm"} \/ (r_pc = "done" /\ response.status = 200)

\* C26: in POST /meta/analyze no level outside the claimed set is ever
\* fetched, and once the fetches are through the levels fetched are exactly:
\* all three when include_levels is absent or empty, otherwise the valid
\* levels it names plus ad on a creative/ad keyword and adset on an ad-set
\* keyword of the user message. So an empty list never gives zero fetches.
C26_LevelsFetched ==
    endpoint = "POST" =>
        /\ LevelsFetched \subseteq ClaimedLevels(body)
        /\ FetchesDone => LevelsFetched = ClaimedLevels(body)
        /\ (FetchesDone /\ body.include_levels = List(<<>>)) => calls # <<>>

\* a request naming only the campaign level, asking about "ADS", was answered
\* after the campaign and the ad level were fetched
C26_Witness ==
    /\ endpoint = "POST"
    /\ body.include_levels = List(<<"campaign">>)
    /\ body.user_message = M_ADS
    /\ r_pc = "done"
    /\ response.status = 200
    /\ LevelsFetched = {"campaign", "ad"}

----------------------------------------------------------------------------
(* Properties of the frontend's chat history *)

\* The role the claim gives to the message at a position of the history
RoleAt(i) == IF i % 2 = 1 THEN "user" ELSE "assistant"

IsPrefixOf(a, b) == Len(a) <= Len(b) /\ SubSeq(b, 1, Len(a)) = a

\* The stored history alternates user, assistant, ...; it is even between
\* submissions and lacks exactly the assistant's message during one; every
\* history the chat handler posted ends with the submission's own user
\* message and is still the front of the stored history.
ChatHistoryShape ==
    /\ \A i \in 1..Len(chat_messages) : chat_messages[i].role = RoleAt(i)
    /\ c_pc = "rest" => Len(chat_messages) % 2 = 0
    /\ c_pc # "rest" => Len(chat_messages) % 2 = 1
    /\ \A k \in 1..Len(posted) :
        posted[k].via = "chat" =>
            LET sent == posted[k].messages
            IN  /\ sent # <<>>
                /\ sent[Len(sent)] = Message("user", "", posted[k].question)
                /\ IsPrefixOf(sent, chat_messages)

\* A step leaves the stored history alone or appends one message to it: the
\* user's text on a submission, then the analysis text when the POST
\* succeeded and the error text when it failed.
ChatHistoryStep ==
    \/ chat_messages' = chat_messages
    \/ /\ Len(chat_messages') = Len(chat_messages) + 1
       /\ IsPrefixOf(chat_messages, chat_messages')
       /\ LET new == chat_messages'[Len(chat_messages')]
          IN  IF c_pc = "rest"
              THEN new.role = "user" /\ new.text \in ChatInputs /\ c_pc' = "try"
              ELSE /\ c_pc \in {"reply", "except"}
                   /\ c_pc' = "rest"
                   /\ new.role = "assistant"
                   /\ new.text = c_reply.text
                   /\ (new.prefix = "") = c_reply.ok

\* C27: starting from an empty history, after any sequence of chat
\* submissions the stored list has even length and strictly alternates user,
\* assistant; each submission appends exactly one user message and then
\* exactly one assistant message (the analysis on success, an error text on
\* failure), nothing is removed or reordered, and the history posted for a
\* submission already ends with that submission's own user message.
C27_ChatHistoryAlternates == [](ChatHistoryShape) /\ [][ChatHistoryStep]_vars

\* two submissions are over: the first failed and left an error text, the
\* second was answered, and the second POST carried three messages
C27_Witness ==
    /\ c_pc = "rest"
    /\ Len(chat_messages) = 4
    /\ chat_messages[2].prefix # ""
    /\ chat_messages[4] = Message("assistant", "", "O CTR caiu.")
    /\ \E k \in 1..Len(posted) :
        posted[k].via = "chat" /\ Len(posted[k].messages) = 3

====
